---- MODULE Spec2Model ----
(***************************************************************************)
(* Model of the slive-migration utilities: the condition-key parser and    *)
(* rule builder of the GrowthBook client, the priority rankers, the rule   *)
(* reordering of the migration script and the fragment merge of the        *)
(* Swag-server test script.                                                *)
(*                                                                         *)
(* Strings are sequences of tokens.  The separator characters "=", "&",    *)
(* ";" and "-" are tokens of their own; every other token is a word that   *)
(* holds no separator character, and no word is a prefix of another word.  *)
(* Under that convention containment, equality, split and startswith on    *)
(* token sequences agree with the same operations on Python strings.       *)
(***************************************************************************)
EXTENDS Integers, Sequences, FiniteSets, TLC

VARIABLES
    pc,                 \* position of the running script
    in_key,             \* the condition key handed to the parsers (parser runs)
    parsed_attrs,       \* result of parse_variation_ids_to_attributes
    saved_groups_cache, \* GrowthBook.saved_groups_cache: name -> group id
    cache_loaded,       \* GrowthBook._is_saved_groups_cache_loaded
    remote_groups,      \* saved groups held by the GrowthBook server, id = index
    except_file,        \* contents of except.json
    default_value,      \* results of the last process_config_to_rules call
    rules,
    value_type,
    attributes_needed,
    skipped_keys,
    ensured,            \* the ensure_saved_group calls of the last run, in order
    block_in,           \* the block handed to process_config_to_rules
    config_in,          \* the block handed to process_config_element
    attributes_cache,   \* GrowthBook.attributes_cache: property -> datatype
    attrs_loaded,       \* GrowthBook._is_cache_loaded
    remote_attrs,       \* attributes held by the GrowthBook server: property -> datatype
    remote_features,    \* features held by the GrowthBook server: id -> feature
    payload,            \* the last payload create_feature sent
    feature,            \* whether the last process_config_element returned a feature
    score,              \* result of get_priority_score (ranker runs)
    prio_index,         \* result of get_priority_index (ranker runs)
    server,             \* configuration server: variation id -> fragment
    fragments,          \* configs_with_priority as fetched (merge runs)
    merged_config,      \* merged_config (merge runs)
    calls,              \* number of calls made on the client (client runs)
    history,            \* every ensure_saved_group call so far, with its outcome
    logged,             \* every record handed to _log_exceptions so far
    existing_context_fields, \* UnleashMigrator.existing_context_fields
    existing_segments,  \* UnleashMigrator.existing_segments: name -> segment id
    remote_context,     \* context fields held by Unleash: name -> legal values
    remote_segments,    \* segments held by Unleash, id = index
    strategies,         \* the strategies posted to Unleash, in order
    segment_calls,      \* every create_segment call so far, with its outcome
    handled,            \* the (key, value) pairs process_operator_key went through
    growthbook_file,    \* the GrowthBook results file given to compare_configs
    merged_config_file, \* the merged config file given to compare_configs
    missing_keys,       \* compare_configs: missing_keys
    mismatched_values,  \* compare_configs: the keys of mismatched_values
    exit_status,        \* the exit status of the script, NoExit while it runs
    script,             \* the script started: "migrate", "revert", "unleash" or ""
    have,               \* what the script finds: api_key, project, api_url, config
    requests,           \* the remote HTTP requests the script has issued
    config_items,       \* process_all_config: the items of the configuration file
    remaining,          \* process_all_config: the items the loop has yet to visit
    processed_keys,     \* process_all_config: processed_keys
    total_features,     \* process_all_config: total_features
    processed,          \* the keys visited, each with what process_config_element returned
    feature_on_server,  \* copy_all_env_rules: the feature as the server holds it
    copy_args,          \* copy_environment_rules: source_env and target_env
    fetched,            \* copy_environment_rules: what get_feature returned
    update_sent,        \* copy_environment_rules: the payloads handed to update_feature
    copy_result         \* copy_environment_rules: "True", "False" or "None"; "" before

gbvars == <<saved_groups_cache, cache_loaded, remote_groups, except_file,
            default_value, rules, value_type, attributes_needed, skipped_keys,
            ensured, block_in>>

elvars == <<config_in, attributes_cache, attrs_loaded, remote_attrs, remote_features,
            payload, feature>>

rankvars == <<score, prio_index>>

mergevars == <<server, fragments, merged_config>>

clvars == <<calls, history, logged>>

ulvars == <<existing_context_fields, existing_segments, remote_context,
            remote_segments, strategies, segment_calls, handled>>

cmpvars == <<growthbook_file, merged_config_file, missing_keys, mismatched_values>>

startvars == <<script, have, requests>>

batchvars == <<config_items, remaining, processed_keys, total_features, processed>>

copyvars == <<feature_on_server, copy_args, fetched, update_sent, copy_result>>

latevars == <<cmpvars, exit_status, startvars, batchvars, copyvars>>

extravars == <<clvars, ulvars, latevars>>

vars == <<pc, in_key, parsed_attrs, gbvars, elvars, rankvars, mergevars, extravars>>

(***************************************************************************)
(* String operations.                                                      *)
(***************************************************************************)
EQ == "="
AMP == "&"
SEMI == ";"
HYP == "-"

\* Python: c in s
Contains(s, c) == \E i \in 1..Len(s) : s[i] = c

FirstIndex(s, c) == CHOOSE i \in 1..Len(s) : s[i] = c /\ \A j \in 1..(i-1) : s[j] # c

\* Python: s.split(c)
RECURSIVE Split(_, _)
Split(s, c) ==
    IF ~Contains(s, c) THEN <<s>>
    ELSE LET i == FirstIndex(s, c)
         IN <<SubSeq(s, 1, i-1)>> \o Split(SubSeq(s, i+1, Len(s)), c)

\* Python: s.split(c, 1)
SplitFirst(s, c) ==
    IF ~Contains(s, c) THEN <<s>>
    ELSE LET i == FirstIndex(s, c)
         IN <<SubSeq(s, 1, i-1), SubSeq(s, i+1, Len(s))>>

\* Python: s.replace(c, d) for single characters
Replace(s, c, d) == [i \in 1..Len(s) |-> IF s[i] = c THEN d ELSE s[i]]

\* Python: s.startswith(p)
StartsWith(s, p) == Len(p) <= Len(s) /\ SubSeq(s, 1, Len(p)) = p

\* Python: sep.join(parts)
RECURSIVE Join(_, _)
Join(parts, sep) ==
    IF Len(parts) = 0 THEN <<>>
    ELSE IF Len(parts) = 1 THEN parts[1]
    ELSE parts[1] \o <<sep>> \o Join(Tail(parts), sep)

\* sum(1 for part in parts if "=" in part)
PartsWithEquals(parts) == Cardinality({i \in 1..Len(parts) : Contains(parts[i], EQ)})

\* dict[key] = value
DictSet(d, k, v) == [x \in DOMAIN d \cup {k} |-> IF x = k THEN v ELSE d[x]]

EmptyDict == [x \in {} |-> <<>>]

(***************************************************************************)
(* Configuration values.                                                    *)
(***************************************************************************)
StrVal(s) == [t |-> "str", s |-> s, items |-> <<>>]
NumVal(s) == [t |-> "num", s |-> s, items |-> <<>>]
BoolVal(s) == [t |-> "bool", s |-> s, items |-> <<>>]
NoneVal == [t |-> "none", s |-> "", items |-> <<>>]
ListVal(items) == [t |-> "list", s |-> "", items |-> items]
DictVal(items) == [t |-> "dict", s |-> "", items |-> items]

_extract_value(child_value) ==
    IF child_value.t = "list"
    THEN IF Len(child_value.items) = 1 THEN child_value.items[1]
         ELSE IF Len(child_value.items) = 0 THEN StrVal("")
         ELSE child_value
    ELSE child_value

\* mutant: an array or object is taken for a string
InferValueTypeNoJson(value) ==
    IF value.t = "bool" THEN "boolean"
    ELSE IF value.t = "num" THEN "number"
    ELSE "string"

_infer_value_type(value) ==
    IF value.t = "bool" THEN "boolean"
    ELSE IF value.t = "num" THEN "number"
    ELSE IF value.t \in {"list", "dict"} THEN "json"
    ELSE "string"

(***************************************************************************)
(* GrowthBook client: saved groups.  A client is the record                *)
(* [cache, loaded, remote]: saved_groups_cache (name -> id), the flag      *)
(* _is_saved_groups_cache_loaded and the server's saved groups.  The       *)
(* server assigns ids; an id is the group's index in the server's list.    *)
(* NoGroup is Python's None.                                               *)
(***************************************************************************)
NoGroup == 0

\* the cache list_saved_groups rebuilds from the server's answer
CacheFrom(remote) ==
    [n \in {remote[i].name : i \in DOMAIN remote} |->
        CHOOSE i \in DOMAIN remote :
            remote[i].name = n /\ \A j \in DOMAIN remote : remote[j].name = n => j <= i]

list_saved_groups(c, ok) ==
    IF c.loaded THEN c
    ELSE IF ok THEN [c EXCEPT !.cache = CacheFrom(c.remote), !.loaded = TRUE]
    ELSE c

\* returns [client, id, hit]
create_saved_group(c, name, condition, ok) ==
    IF ok
    THEN LET id == Len(c.remote) + 1
         IN [client |-> [c EXCEPT !.remote = Append(c.remote, [name |-> name, condition |-> condition]),
                                  !.cache = DictSet(c.cache, name, id)],
             id |-> id, hit |-> FALSE]
    ELSE [client |-> c, id |-> NoGroup, hit |-> FALSE]

\* mutant: the cache is not consulted
EnsureAlwaysCreates(c0, name, condition, listOk, createOk) ==
    create_saved_group(list_saved_groups(c0, listOk), name, condition, createOk)

\* returns [client, id, hit]; hit tells that the name was found in the cache
ensure_saved_group(c0, name, condition, listOk, createOk) ==
    LET c == list_saved_groups(c0, listOk)
    IN IF name \in DOMAIN c.cache
       THEN [client |-> c, id |-> c.cache[name], hit |-> TRUE]
       ELSE create_saved_group(c, name, condition, createOk)

(***************************************************************************)
(* GrowthBook client: condition keys.                                      *)
(***************************************************************************)
DEFAULT == <<"default">>

SIMPLE_KEYS == {<<"beta">>, <<"authenticated">>, <<"verified">>, <<"creator">>,
                <<"curator">>, <<"banned">>, <<"nsfw">>, <<"owner">>}

\* mutant: "multiple parts" of the value part must hold an "="
HasUnsupportedSeparatorMultiple(key) ==
    IF ~Contains(key, EQ) THEN FALSE
    ELSE LET value_part == SplitFirst(key, EQ)[2]
         IN IF Contains(key, AMP)
            THEN Contains(value_part, SEMI) /\ Contains(value_part, EQ)
            ELSE \/ /\ Contains(value_part, SEMI)
                    /\ PartsWithEquals(Split(value_part, SEMI)) > 1
                 \/ /\ Contains(value_part, HYP)
                    /\ PartsWithEquals(Split(value_part, HYP)) > 1

_has_unsupported_separator(key) ==
    IF ~Contains(key, EQ) THEN FALSE
    ELSE LET value_part == SplitFirst(key, EQ)[2]
         IN IF Contains(key, AMP)
            THEN Contains(value_part, SEMI) /\ Contains(value_part, EQ)
            ELSE \/ /\ Contains(value_part, SEMI)
                    /\ PartsWithEquals(Split(value_part, SEMI)) > 0
                 \/ /\ Contains(value_part, HYP)
                    /\ PartsWithEquals(Split(value_part, HYP)) > 0

\* the loop of _parse_ampersand_conditions over parts[i..]
RECURSIVE ParsePartsFrom(_, _, _)
ParsePartsFrom(parts, i, d) ==
    IF i > Len(parts) THEN d
    ELSE IF Contains(parts[i], EQ)
         THEN LET kv == SplitFirst(parts[i], EQ)
              IN ParsePartsFrom(parts, i + 1, DictSet(d, kv[1], kv[2]))
         ELSE ParsePartsFrom(parts, i + 1, d)

\* mutant: the loop stops one part early
ParseAmpersandDropsLast(condition_string) ==
    LET parts == Split(condition_string, AMP)
    IN ParsePartsFrom(SubSeq(parts, 1, Len(parts) - 1), 1, EmptyDict)

\* returns condition_dict; attributes_set is its key set
_parse_ampersand_conditions(condition_string) ==
    ParsePartsFrom(Split(condition_string, AMP), 1, EmptyDict)

Rule(value, description, group_id) ==
    [value |-> value, description |-> description, enabled |-> TRUE,
     savedGroups |-> group_id]

Skipped(config_key, child_key, reason, value) ==
    [config_key |-> config_key, child_key |-> child_key, reason |-> reason,
     value |-> value]

\* mutant: a key whose saved group is null leaves no rule
WithGroupDropsNullGroup(st, child_key, actual_value, description, condition, attrs, listOk, createOk) ==
    LET e == ensure_saved_group(st.client, child_key, condition, listOk, createOk)
    IN [st EXCEPT !.client = e.client,
                  !.attributes_needed = @ \cup attrs,
                  !.rules = IF e.id = NoGroup THEN @
                            ELSE Append(@, Rule(actual_value, description, e.id)),
                  !.ensured = Append(@, [name |-> child_key, condition |-> condition,
                                         id |-> e.id, hit |-> e.hit])]

\* One iteration of the loop of process_config_to_rules.  st holds the
\* locals of the call and the client; listOk / createOk are the outcomes of
\* the two remote calls ensure_saved_group may make.
WithGroup(st, child_key, actual_value, description, condition, attrs, listOk, createOk) ==
    LET e == ensure_saved_group(st.client, child_key, condition, listOk, createOk)
    IN [st EXCEPT !.client = e.client,
                  !.attributes_needed = @ \cup attrs,
                  !.rules = Append(@, Rule(actual_value, description, e.id)),
                  !.ensured = Append(@, [name |-> child_key, condition |-> condition,
                                         id |-> e.id, hit |-> e.hit])]

ProcessChild(st, config_key, child_key, child_value, listOk, createOk) ==
    LET actual_value == _extract_value(child_value)
    IN IF child_key = DEFAULT
       THEN [st EXCEPT !.default_value = actual_value,
                       !.value_type = _infer_value_type(actual_value)]
       ELSE IF _has_unsupported_separator(child_key)
       THEN LET separator_type == IF Contains(child_key, SEMI) THEN "semicolon" ELSE "hyphen"
            IN [st EXCEPT !.skipped_keys =
                   Append(@, Skipped(config_key, child_key,
                                     IF separator_type = "semicolon"
                                     THEN "unsupported_separator_semicolon"
                                     ELSE "unsupported_separator_hyphen",
                                     actual_value))]
       ELSE IF child_key \in SIMPLE_KEYS
       THEN LET attribute_name == <<"is_">> \o child_key
            IN WithGroup(st, child_key, actual_value, child_key \o <<" users">>,
                         [a \in {attribute_name} |-> <<"true">>], {attribute_name},
                         listOk, createOk)
       ELSE IF Contains(child_key, AMP)
       THEN LET condition_dict == _parse_ampersand_conditions(child_key)
            IN WithGroup(st, child_key, actual_value, child_key,
                         condition_dict, DOMAIN condition_dict, listOk, createOk)
       ELSE IF Contains(child_key, EQ)
       THEN LET parts == SplitFirst(child_key, EQ)
                attribute_name == parts[1]
                condition_value == parts[2]
            IN WithGroup(st, child_key, actual_value,
                         attribute_name \o <<EQ>> \o condition_value,
                         [a \in {attribute_name} |-> condition_value], {attribute_name},
                         listOk, createOk)
       ELSE [st EXCEPT !.skipped_keys =
                Append(@, Skipped(config_key, child_key, "unrecognized_pattern",
                                  actual_value))]

RECURSIVE ProcessFrom(_, _, _, _, _, _)
ProcessFrom(st, config_key, block, i, listFail, createFail) ==
    IF i > Len(block) THEN st
    ELSE ProcessFrom(ProcessChild(st, config_key, block[i].key, block[i].value,
                                  block[i].key \notin listFail,
                                  block[i].key \notin createFail),
                     config_key, block, i + 1, listFail, createFail)

\* A file is the list of the records in it; an absent file holds none.
\* GARBLED is a file that json.load cannot parse.
GARBLED == <<Skipped(<<>>, <<>>, "not json", NoneVal)>>

\* mutant: the file is written anew
LogExceptionsOverwrites(file, exceptions) == exceptions

\* except.json after _log_exceptions
_log_exceptions(file, exceptions) ==
    LET existing_exceptions == IF file = GARBLED THEN <<>> ELSE file
    IN existing_exceptions \o exceptions

\* The whole call.  block is the ordered dict config_value as a sequence of
\* [key, value]; listFail / createFail are the child keys for which the
\* listing, resp. the creation, of saved groups fails.  Returns the locals
\* at the return statement, the client and except.json.
process_config_to_rules(client, file, block, config_key, listFail, createFail) ==
    LET st0 == [client |-> client, default_value |-> NoneVal, rules |-> <<>>,
                value_type |-> "string", attributes_needed |-> {},
                skipped_keys |-> <<>>, ensured |-> <<>>]
        st == ProcessFrom(st0, config_key, block, 1, listFail, createFail)
    IN [client |-> st.client,
        file |-> IF st.skipped_keys # <<>> THEN _log_exceptions(file, st.skipped_keys)
                 ELSE file,
        default_value |-> IF st.default_value = NoneVal THEN StrVal("") ELSE st.default_value,
        rules |-> st.rules,
        value_type |-> st.value_type,
        attributes_needed |-> st.attributes_needed,
        skipped_keys |-> st.skipped_keys,
        ensured |-> st.ensured]

(***************************************************************************)
(* Evaluation script: variation ids to SDK attributes.                     *)
(***************************************************************************)
EVAL_SIMPLE_KEYS == SIMPLE_KEYS \cup {DEFAULT}

RECURSIVE AttrPartsFrom(_, _, _)
AttrPartsFrom(parts, i, attributes) ==
    IF i > Len(parts) THEN attributes
    ELSE IF Contains(parts[i], EQ)
         THEN LET kv == SplitFirst(parts[i], EQ)
              IN AttrPartsFrom(parts, i + 1, DictSet(attributes, kv[1], kv[2]))
         ELSE AttrPartsFrom(parts, i + 1, attributes)

RECURSIVE AttrsFrom(_, _, _)
AttrsFrom(variation_ids, i, attributes) ==
    IF i > Len(variation_ids) THEN attributes
    ELSE LET variation_id == variation_ids[i]
         IN IF variation_id = DEFAULT
            THEN AttrsFrom(variation_ids, i + 1, attributes)
            ELSE IF variation_id \in EVAL_SIMPLE_KEYS
            THEN AttrsFrom(variation_ids, i + 1,
                           DictSet(attributes, <<"is_">> \o variation_id, <<"true">>))
            ELSE IF Contains(variation_id, AMP) \/ Contains(variation_id, SEMI)
            THEN AttrsFrom(variation_ids, i + 1,
                           AttrPartsFrom(Split(Replace(variation_id, SEMI, AMP), AMP), 1,
                                         attributes))
            ELSE IF Contains(variation_id, EQ)
            THEN LET kv == SplitFirst(variation_id, EQ)
                 IN AttrsFrom(variation_ids, i + 1, DictSet(attributes, kv[1], kv[2]))
            ELSE AttrsFrom(variation_ids, i + 1, attributes)

\* mutant: only "&" joins conditions, a ";" stays inside the value
RECURSIVE AttrsFromAmpOnly(_, _, _)
AttrsFromAmpOnly(variation_ids, i, attributes) ==
    IF i > Len(variation_ids) THEN attributes
    ELSE LET variation_id == variation_ids[i]
         IN IF variation_id \in EVAL_SIMPLE_KEYS \/ ~Contains(variation_id, EQ)
            THEN AttrsFromAmpOnly(variation_ids, i + 1, attributes)
            ELSE AttrsFromAmpOnly(variation_ids, i + 1,
                                  AttrPartsFrom(Split(variation_id, AMP), 1, attributes))

ParseVariationIdsAmpOnly(variation_ids) == AttrsFromAmpOnly(variation_ids, 1, EmptyDict)

parse_variation_ids_to_attributes(variation_ids) == AttrsFrom(variation_ids, 1, EmptyDict)

(***************************************************************************)
(* Shared pieces of the specifications.                                    *)
(***************************************************************************)
Client == [cache |-> saved_groups_cache, loaded |-> cache_loaded, remote |-> remote_groups]

\* the state after process_config_to_rules returned r
Returned(r) ==
    /\ saved_groups_cache' = r.client.cache
    /\ cache_loaded' = r.client.loaded
    /\ remote_groups' = r.client.remote
    /\ except_file' = r.file
    /\ default_value' = r.default_value
    /\ rules' = r.rules
    /\ value_type' = r.value_type
    /\ attributes_needed' = r.attributes_needed
    /\ skipped_keys' = r.skipped_keys
    /\ ensured' = r.ensured

NoResults ==
    /\ default_value = NoneVal
    /\ rules = <<>>
    /\ value_type = "string"
    /\ attributes_needed = {}
    /\ skipped_keys = <<>>
    /\ ensured = <<>>

Item(k, v) == [key |-> k, value |-> v]

NoPayload == [defaultValue |-> NoneVal, rules |-> <<>>, valueType |-> "", id |-> <<>>]

\* the variables of the other scripts, at rest
ElementIdle ==
    /\ config_in = <<>>
    /\ attributes_cache = EmptyDict
    /\ attrs_loaded = FALSE
    /\ remote_attrs = EmptyDict
    /\ remote_features = EmptyDict
    /\ payload = NoPayload
    /\ feature = FALSE

RankIdle == score = -1 /\ prio_index = -1

ClientIdle == calls = 0 /\ history = <<>> /\ logged = <<>>

UnleashIdle ==
    /\ existing_context_fields = {}
    /\ existing_segments = EmptyDict
    /\ remote_context = EmptyDict
    /\ remote_segments = <<>>
    /\ strategies = <<>>
    /\ segment_calls = <<>>
    /\ handled = <<>>

\* no file
NoFile == [state |-> "absent", data |-> EmptyDict]

\* the script has not exited
NoExit == -1

CompareIdle ==
    /\ growthbook_file = NoFile
    /\ merged_config_file = NoFile
    /\ missing_keys = <<>>
    /\ mismatched_values = <<>>

\* no environment
NoEnv == [api_key |-> FALSE, project |-> FALSE, api_url |-> FALSE, config |-> "absent"]

StartIdle == script = "" /\ have = NoEnv /\ requests = 0

BatchIdle ==
    /\ config_items = <<>>
    /\ remaining = <<>>
    /\ processed_keys = 0
    /\ total_features = 0
    /\ processed = <<>>

\* no feature; environments maps the names of the environments to their
\* configurations
NoFeature == [found |-> FALSE, environments |-> EmptyDict]

CopyIdle ==
    /\ feature_on_server = NoFeature
    /\ copy_args = <<>>
    /\ fetched = NoFeature
    /\ update_sent = <<>>
    /\ copy_result = ""

LateIdle == CompareIdle /\ exit_status = NoExit /\ StartIdle /\ BatchIdle /\ CopyIdle

ExtrasIdle == ClientIdle /\ UnleashIdle /\ LateIdle

MergeIdle ==
    /\ server = EmptyDict
    /\ fragments = <<>>
    /\ merged_config = EmptyDict

(***************************************************************************)
(* SpecParse: one condition key, drawn from every key that MaxSegs         *)
(* segments over the words x, y and "=" joined by "&", ";" or "-" can      *)
(* spell, is handed to process_config_to_rules (in a block with a default) *)
(* by a fresh client, or to parse_variation_ids_to_attributes.             *)
(***************************************************************************)
MaxSegs == 3

SegSet == { <<>>, <<"x">>,
            <<"x", EQ, "x">>, <<"x", EQ, "y">>, <<"y", EQ, "x">>,
            <<"x", EQ, "y", EQ, "x">> }

Seps == {AMP, SEMI, HYP}

RECURSIVE KeysOfSegs(_)
KeysOfSegs(n) ==
    IF n = 1 THEN SegSet
    ELSE {k \o <<sep>> \o sg : k \in KeysOfSegs(n - 1), sep \in Seps, sg \in SegSet}

AllKeys == UNION {KeysOfSegs(n) : n \in 1..MaxSegs}

StaleCondition == [a \in {<<"z">>} |-> <<"z">>]

ParseBlock(key) == <<Item(DEFAULT, ListVal(<<StrVal("d")>>)), Item(key, ListVal(<<StrVal("v")>>))>>

ParseInit ==
    /\ pc = "start"
    /\ in_key \in AllKeys
    /\ parsed_attrs = EmptyDict
    /\ saved_groups_cache = EmptyDict
    /\ cache_loaded = FALSE
    /\ remote_groups \in {<<>>, <<[name |-> in_key, condition |-> StaleCondition]>>}
    /\ except_file = <<>>
    /\ NoResults
    /\ block_in = <<>>
    /\ ElementIdle
    /\ RankIdle
    /\ ExtrasIdle
    /\ MergeIdle

ProcessKey ==
    /\ pc = "start"
    /\ \E listOk \in BOOLEAN, createOk \in BOOLEAN :
          \E r \in {process_config_to_rules(Client, except_file, ParseBlock(in_key), <<"TEST">>,
                                            IF listOk THEN {} ELSE {in_key},
                                            IF createOk THEN {} ELSE {in_key})} :
              Returned(r)
    /\ block_in' = ParseBlock(in_key)
    /\ pc' = "processed"
    /\ UNCHANGED <<in_key, parsed_attrs, elvars, rankvars, mergevars, extravars>>

ParseKey ==
    /\ pc = "start"
    /\ parsed_attrs' = parse_variation_ids_to_attributes(<<in_key>>)
    /\ pc' = "parsed"
    /\ UNCHANGED <<in_key, gbvars, elvars, rankvars, mergevars, extravars>>

ParseNext == ProcessKey \/ ParseKey

SpecParse == ParseInit /\ [][ParseNext]_vars

(***************************************************************************)
(* Claims about the condition-key parser (checked under SpecParse).        *)
(***************************************************************************)
Reverse(seq) == [i \in 1..Len(seq) |-> seq[Len(seq) + 1 - i]]

AttrOf(part) == SplitFirst(part, EQ)[1]
ValueOf(part) == SplitFirst(part, EQ)[2]

\* key is attr=value pairs joined by "&": two or more parts, each with an
\* "=" after a non-empty attribute name, the names pairwise distinct, no ";"
AmpForm(key) ==
    LET parts == Split(key, AMP)
    IN /\ Len(parts) >= 2
       /\ ~Contains(key, SEMI)
       /\ \A i \in 1..Len(parts) : Contains(parts[i], EQ) /\ AttrOf(parts[i]) # <<>>
       /\ \A i, j \in 1..Len(parts) : AttrOf(parts[i]) = AttrOf(parts[j]) => i = j

\* the map {a: b, c: d} the pairs of key spell
PairsMap(key) ==
    LET parts == Split(key, AMP)
    IN [a \in {AttrOf(parts[i]) : i \in 1..Len(parts)} |->
           ValueOf(parts[CHOOSE i \in 1..Len(parts) : AttrOf(parts[i]) = a])]

OtherOrder(key) == Join(Reverse(Split(key, AMP)), AMP)

TheValue == StrVal("v")

SeparatesSegments(key, c) == PartsWithEquals(Split(key, c)) >= 2

HyphenSkipped ==
    /\ rules = <<>>
    /\ skipped_keys = <<Skipped(<<"TEST">>, in_key, "unsupported_separator_hyphen", TheValue)>>

\* C2 as stated: every key in which a hyphen separates two key=value
\* segments, whatever else it holds, yields no rule and one skipped entry
\* with reason unsupported_separator_hyphen.
C2_Original ==
    (pc = "processed" /\ SeparatesSegments(in_key, HYP)) => HyphenSkipped

\* C2 amended: the same for keys that hold neither "&" nor ";".
C2_HyphenSkipped ==
    (pc = "processed" /\ SeparatesSegments(in_key, HYP)
        /\ ~Contains(in_key, AMP) /\ ~Contains(in_key, SEMI)) => HyphenSkipped

C2_Witness ==
    /\ pc = "processed"
    /\ in_key = <<"x", EQ, "y", HYP, "y", EQ, "x">>
    /\ Len(skipped_keys) = 1
    /\ except_file = skipped_keys

\* key joins two or more key=value segments with ";" and holds no "&"
SemiJoined(key) == ~Contains(key, AMP) /\ SeparatesSegments(key, SEMI)

Supported(key) ==
    \/ key \in SIMPLE_KEYS
    \/ Contains(key, EQ) /\ ~Contains(key, SEMI) /\ ~Contains(key, HYP)

\* C4 as stated: a block with a default, a semicolon-joined key and otherwise
\* supported keys yields one rule per non-default key and no skipped key.
C4_SemicolonSupported ==
    (/\ pc = "processed"
     /\ \E i \in 1..Len(block_in) : block_in[i].key = DEFAULT
     /\ \E i \in 1..Len(block_in) : SemiJoined(block_in[i].key)
     /\ \A i \in 1..Len(block_in) :
           \/ block_in[i].key = DEFAULT
           \/ SemiJoined(block_in[i].key)
           \/ Supported(block_in[i].key))
    => (Len(rules) = Len(block_in) - 1 /\ skipped_keys = <<>>)

Flagged ==
    \E i \in 1..Len(skipped_keys) :
        skipped_keys[i].reason \in {"unsupported_separator_hyphen",
                                    "unsupported_separator_semicolon"}

\* C5 as stated: a key is flagged for an unsupported separator exactly when
\* splitting it on "-" or on ";" yields two or more parts that hold an "=";
\* a key=value key with fewer such parts is not flagged and yields a rule.
C5_SeparatorIffTwoParts ==
    (pc = "processed") =>
        /\ Flagged <=> (SeparatesSegments(in_key, HYP) \/ SeparatesSegments(in_key, SEMI))
        /\ (Contains(in_key, EQ) /\ ~SeparatesSegments(in_key, HYP)
               /\ ~SeparatesSegments(in_key, SEMI)) => Len(rules) = 1

\* C26 as stated: the saved group of every rule made for the key holds, as
\* its condition, the attribute map that parse_variation_ids_to_attributes
\* builds from the key.
C26_EvaluatorSatisfiesRule ==
    (pc = "processed") =>
        \A j \in 1..Len(rules) :
            /\ rules[j].savedGroups # NoGroup
            /\ remote_groups[rules[j].savedGroups].condition
                  = parse_variation_ids_to_attributes(<<in_key>>)

(***************************************************************************)
(* Priority rankers.                                                       *)
(***************************************************************************)
\* test_swag_config.py: lowest priority first
PRIORITY_ORDER ==
    << <<"default">>, <<"country">>, <<"country", HYP, "group">>, <<"os">>,
       <<"os", "_version">>, <<"pusher", HYP, "app">>, <<"flavor">>,
       <<"utm_", "campaign">>, <<"utm_", "medium">>, <<"utm_", "source">>,
       <<"utm_", "content">>, <<"utm_", "term">>, <<"language">>,
       <<"forced", HYP, "update">>, <<"suggested", HYP, "update">>, <<"nsfw">>,
       <<"authenticated">>, <<"creator">>, <<"currency">>, <<"partner">>,
       <<"verified">>, <<"ab">>, <<"cohort">>, <<"banned">>, <<"beta">>,
       <<"owner">>, <<"client_id">>, <<"country", EQ, "jp">> >>

InList(list, e) == \E i \in 1..Len(list) : list[i] = e

\* Python: list.index(e), counted from 0
IndexIn(list, e) == FirstIndex(list, e) - 1

UTM_CAMPAIGN == <<"utm_", "campaign">>

get_priority_score(variation_id) ==
    IF InList(PRIORITY_ORDER, variation_id) THEN IndexIn(PRIORITY_ORDER, variation_id)
    ELSE IF Contains(variation_id, EQ)
    THEN LET key == SplitFirst(variation_id, EQ)[1]
         IN IF InList(PRIORITY_ORDER, key) THEN IndexIn(PRIORITY_ORDER, key)
            ELSE IF StartsWith(key, <<"utm_">>) /\ InList(PRIORITY_ORDER, UTM_CAMPAIGN)
            THEN IndexIn(PRIORITY_ORDER, UTM_CAMPAIGN)
            ELSE Len(PRIORITY_ORDER) \div 2
    ELSE Len(PRIORITY_ORDER) \div 2

\* constants.py is not part of the sources at hand.  main.py reads the list
\* with "High Priority = Low Index = First": the table of the specification,
\* highest priority first.
MAIN_PRIORITY_ORDER == [i \in 1..Len(PRIORITY_ORDER) |-> PRIORITY_ORDER[Len(PRIORITY_ORDER) + 1 - i]]

\* the for loop of get_priority_index from entry i on (i counts from 1)
RECURSIVE PriorityIndexFrom(_, _)
PriorityIndexFrom(key_base, i) ==
    IF i > Len(MAIN_PRIORITY_ORDER) THEN Len(MAIN_PRIORITY_ORDER)
    ELSE IF \/ key_base = MAIN_PRIORITY_ORDER[i]
            \/ StartsWith(key_base, MAIN_PRIORITY_ORDER[i])
    THEN i - 1
    ELSE PriorityIndexFrom(key_base, i + 1)

get_priority_index(key) == PriorityIndexFrom(Split(key, EQ)[1], 1)

(***************************************************************************)
(* Python's list sort on records with a priority field.                    *)
(***************************************************************************)
\* mutant: an element goes before those of its own priority
InsertBeforeEquals(sorted, x) ==
    LET k == Cardinality({i \in 1..Len(sorted) : sorted[i].priority < x.priority})
    IN SubSeq(sorted, 1, k) \o <<x>> \o SubSeq(sorted, k + 1, Len(sorted))

\* Python: list.sort(key = priority), a stable sort
InsertByPriority(sorted, x) ==
    LET k == Cardinality({i \in 1..Len(sorted) : sorted[i].priority <= x.priority})
    IN SubSeq(sorted, 1, k) \o <<x>> \o SubSeq(sorted, k + 1, Len(sorted))

\* mutant: the list is left in arrival order
SortKeepsArrivalOrder(list) == list

RECURSIVE SortByPriority(_)
SortByPriority(list) ==
    IF Len(list) = 0 THEN <<>>
    ELSE InsertByPriority(SortByPriority(SubSeq(list, 1, Len(list) - 1)), list[Len(list)])

(***************************************************************************)
(* GrowthBook client: attributes and features.  An attribute client is the *)
(* record [cache, loaded, remote].                                         *)
(***************************************************************************)
list_attributes(c, ok) ==
    IF c.loaded THEN c
    ELSE IF ok THEN [c EXCEPT !.cache = c.remote, !.loaded = TRUE]
    ELSE c

\* returns [client, attribute]; attribute tells that the result is not None
create_attribute(c, property_key, datatype, ok) ==
    IF ok
    THEN [client |-> [c EXCEPT !.remote = DictSet(c.remote, property_key, datatype),
                               !.cache = DictSet(c.cache, property_key, datatype)],
          attribute |-> TRUE]
    ELSE [client |-> c, attribute |-> FALSE]

ensure_attribute(c0, property_key, datatype, listOk, createOk) ==
    LET c == list_attributes(c0, listOk)
    IN IF property_key \in DOMAIN c.cache
       THEN [client |-> c, attribute |-> TRUE]
       ELSE create_attribute(c, property_key, datatype, createOk)

\* mutant: every value is sent in its string form
SerializeAlwaysStr(value_type_, value) == [enc |-> "str", of |-> value]

\* json.dumps(value) if value_type == "json" else str(value)
Serialize(value_type_, value) ==
    [enc |-> IF value_type_ = "json" THEN "json" ELSE "str", of |-> value]

FormattedRule(value_type_, rule) ==
    [description |-> rule.description,
     enabled |-> rule.enabled,
     type |-> "force",
     value |-> Serialize(value_type_, rule.value),
     savedGroups |-> rule.savedGroups]

\* the feature the server answers with, if the request succeeds
get_feature(features, feature_id, ok) ==
    IF ok /\ feature_id \in DOMAIN features
    THEN [found |-> TRUE, feature |-> features[feature_id]]
    ELSE [found |-> FALSE, feature |-> NoPayload]

\* returns [remote, feature]
update_feature(features, feature_id, payload_, ok) ==
    IF ok /\ feature_id \in DOMAIN features
    THEN [remote |-> [features EXCEPT ![feature_id] =
                         [@ EXCEPT !.defaultValue = payload_.defaultValue,
                                   !.rules = payload_.rules]],
          feature |-> TRUE]
    ELSE [remote |-> features, feature |-> FALSE]

\* returns [remote, payload, feature]: the server's features, the payload
\* sent and whether a feature was returned.  getOk / writeOk are the outcomes
\* of the GET and of the POST; the server refuses to create an id it holds.
create_feature(features, feature_id, value_type_, default_value_, rules_, getOk, writeOk) ==
    LET formatted_rules == [i \in 1..Len(rules_) |-> FormattedRule(value_type_, rules_[i])]
        sent == [defaultValue |-> Serialize(value_type_, default_value_),
                 rules |-> Reverse(formatted_rules), valueType |-> "", id |-> <<>>]
    IN IF get_feature(features, feature_id, getOk).found
       THEN LET u == update_feature(features, feature_id, sent, writeOk)
            IN [remote |-> u.remote, payload |-> sent, feature |-> u.feature]
       ELSE LET created == [sent EXCEPT !.id = feature_id, !.valueType = value_type_]
            IN IF writeOk /\ feature_id \notin DOMAIN features
               THEN [remote |-> DictSet(features, feature_id, created),
                     payload |-> created, feature |-> TRUE]
               ELSE [remote |-> features, payload |-> created, feature |-> FALSE]

(***************************************************************************)
(* Migration script (main.py).                                             *)
(***************************************************************************)
\* mutant: the block is handed on as it came
ReorderKeepsInputOrder(config_value) == config_value

\* sorted(config_value.items(), key = get_priority_index), a stable sort
reorder_config_value(config_value) ==
    LET keyed == [i \in 1..Len(config_value) |->
                     [priority |-> get_priority_index(config_value[i].key),
                      item |-> config_value[i]]]
        sorted_items == SortByPriority(keyed)
    IN [i \in 1..Len(sorted_items) |-> sorted_items[i].item]

\* main.py, lines 92-110: the loop over attributes_needed
RECURSIVE EnsureAttributes(_, _, _, _)
EnsureAttributes(c, names, listOk, createOk) ==
    IF names = {} THEN c
    ELSE LET attribute_name == CHOOSE n \in names : TRUE
             datatype == IF StartsWith(attribute_name, <<"is_">>) THEN "boolean" ELSE "string"
         IN EnsureAttributes(ensure_attribute(c, attribute_name, datatype, listOk, createOk).client,
                             names \ {attribute_name}, listOk, createOk)

\* returns the block handed on, what process_config_to_rules returned, the
\* attribute client and what create_feature returned
process_config_element(config_key, config_value, client, file, attrs, features, listFail, createFail, attrListOk, attrCreateOk, getOk, writeOk) ==
    LET reordered == reorder_config_value(config_value)
        r == process_config_to_rules(client, file, reordered, config_key, listFail, createFail)
        a == EnsureAttributes(attrs, r.attributes_needed, attrListOk, attrCreateOk)
        f == create_feature(features, config_key, r.value_type, r.default_value, r.rules,
                            getOk, writeOk)
    IN [block |-> reordered, r |-> r, attrs |-> a, f |-> f]

(***************************************************************************)
(* SpecRank: one key, a bare attribute name or attribute=value, is ranked  *)
(* by both rankers.                                                        *)
(***************************************************************************)
RankAttrs == {PRIORITY_ORDER[i] : i \in 1..Len(PRIORITY_ORDER)}
                \cup {<<"utm_", "id">>, <<"foo">>, <<"os", "x">>}

RankValues == {<<"cn">>, <<"jp">>, <<"123">>}

RankKeys == RankAttrs \cup {a \o <<EQ>> \o v : a \in RankAttrs, v \in RankValues}

RankInit ==
    /\ pc = "start"
    /\ in_key \in RankKeys
    /\ parsed_attrs = EmptyDict
    /\ saved_groups_cache = EmptyDict
    /\ cache_loaded = FALSE
    /\ remote_groups = <<>>
    /\ except_file = <<>>
    /\ NoResults
    /\ block_in = <<>>
    /\ ElementIdle
    /\ RankIdle
    /\ ExtrasIdle
    /\ MergeIdle

Rank ==
    /\ pc = "start"
    /\ score' = get_priority_score(in_key)
    /\ prio_index' = get_priority_index(in_key)
    /\ pc' = "ranked"
    /\ UNCHANGED <<in_key, parsed_attrs, gbvars, elvars, mergevars, extravars>>

SpecRank == RankInit /\ [][Rank]_vars

\* C6 as stated: country=cn scores as the bare key country and strictly less
\* than client_id=123; every key attr=value that is not itself an entry of
\* PRIORITY_ORDER scores exactly as the bare attr.
C6_ScoresAsBareAttr ==
    (pc = "ranked") =>
        /\ (in_key = <<"country", EQ, "cn">>) =>
               /\ score = get_priority_score(<<"country">>)
               /\ score < get_priority_score(<<"client_id", EQ, "123">>)
        /\ (Contains(in_key, EQ) /\ ~InList(PRIORITY_ORDER, in_key)) =>
               score = get_priority_score(AttrOf(in_key))

\* C22 as stated: every key whose attribute name starts with utm_ scores
\* the index of utm_campaign.
C22_UtmSharesOnePriority ==
    (pc = "ranked" /\ StartsWith(in_key, <<"utm_">>)) =>
        score = IndexIn(PRIORITY_ORDER, UTM_CAMPAIGN)

COUNTRY_JP == <<"country", EQ, "jp">>

\* C23 as stated: country=jp ranks strictly above every other key, by the
\* score of the merge (greater is higher) and by the index of the
\* reordering (smaller is higher).
C23_CountryJpHighest ==
    (pc = "ranked" /\ in_key # COUNTRY_JP) =>
        /\ score < get_priority_score(COUNTRY_JP)
        /\ prio_index > get_priority_index(COUNTRY_JP)

(***************************************************************************)
(* Fragment merge (test_swag_config.py).                                    *)
(***************************************************************************)
\* requests.get(url): the file of variation_id on the configuration server;
\* a failed request gives the empty configuration
fetch_config(srv, variation_id) ==
    IF variation_id \in DOMAIN srv /\ srv[variation_id].ok
    THEN srv[variation_id].body
    ELSE EmptyDict

RECURSIVE parse_variation_ids(_)
parse_variation_ids(variation_ids) ==
    IF Len(variation_ids) = 0 THEN <<>>
    ELSE LET variation_id == Head(variation_ids)
         IN (IF Contains(variation_id, AMP) THEN Split(variation_id, AMP)
             ELSE <<variation_id>>) \o parse_variation_ids(Tail(variation_ids))

\* mutant: the first configuration that defines a key keeps it
RECURSIVE MergeConfigsFirstWins(_)
MergeConfigsFirstWins(configs) ==
    IF Len(configs) = 0 THEN EmptyDict
    ELSE LET merged == MergeConfigsFirstWins(SubSeq(configs, 1, Len(configs) - 1))
             config == configs[Len(configs)]
         IN [key \in DOMAIN merged \cup DOMAIN config |->
                IF key \in DOMAIN merged THEN merged[key] ELSE config[key]]

RECURSIVE merge_configs(_)
merge_configs(configs) ==
    IF Len(configs) = 0 THEN EmptyDict
    ELSE LET merged == merge_configs(SubSeq(configs, 1, Len(configs) - 1))
             config == configs[Len(configs)]
         IN [key \in DOMAIN merged \cup DOMAIN config |->
                IF key \in DOMAIN config THEN config[key] ELSE merged[key]]

\* main, lines 212-224: the fetch loop
RECURSIVE FetchAll(_, _)
FetchAll(srv, expanded_ids) ==
    IF Len(expanded_ids) = 0 THEN <<>>
    ELSE LET variation_id == Head(expanded_ids)
             config == fetch_config(srv, variation_id)
         IN (IF DOMAIN config # {}
             THEN << [id |-> variation_id,
                      priority |-> get_priority_score(variation_id),
                      config |-> config] >>
             ELSE <<>>) \o FetchAll(srv, Tail(expanded_ids))

ConfigsOf(list) == [i \in 1..Len(list) |-> list[i].config]

\* main, lines 232-246: sort, then merge
SortAndMerge(configs_with_priority) ==
    merge_configs(ConfigsOf(SortByPriority(configs_with_priority)))

(***************************************************************************)
(* SpecMerge: one run of the merge script against a configuration server.  *)
(* fragments is configs_with_priority as fetched, before the sort.         *)
(***************************************************************************)
MaxArgs == 2

VIds == { <<"default">>, <<"country", EQ, "cn">>, <<"country", EQ, "us">>,
          <<"client_id", EQ, "123">> }

ConfigChoices ==
    { EmptyDict,
      [key \in {"A"} |-> "x"],
      [key \in {"A", "B"} |-> IF key = "A" THEN "y" ELSE "z"] }

Responses == {[ok |-> FALSE, body |-> EmptyDict]}
                \cup {[ok |-> TRUE, body |-> c] : c \in ConfigChoices}

Args == VIds \cup { <<"country", EQ, "us", AMP, "client_id", EQ, "123">> }

Argvs == UNION {[1..n -> Args] : n \in 0..MaxArgs}

MergeInit ==
    /\ pc = "start"
    /\ in_key = <<>>
    /\ parsed_attrs = EmptyDict
    /\ saved_groups_cache = EmptyDict
    /\ cache_loaded = FALSE
    /\ remote_groups = <<>>
    /\ except_file = <<>>
    /\ NoResults
    /\ block_in = <<>>
    /\ ElementIdle
    /\ RankIdle
    /\ ExtrasIdle
    /\ server \in [VIds -> Responses]
    /\ fragments = <<>>
    /\ merged_config = EmptyDict

\* python test_swag_config.py: no argument, the usage text only
MergeUsage ==
    /\ pc = "start"
    /\ pc' = "usage"
    /\ UNCHANGED <<in_key, parsed_attrs, gbvars, elvars, rankvars, mergevars, extravars>>

\* python test_swag_config.py argv[1] ...
MergeMain ==
    /\ pc = "start"
    /\ \E argv \in Argvs :
          /\ Len(argv) > 0
          /\ LET configs_with_priority == FetchAll(server, parse_variation_ids(argv))
             IN /\ fragments' = configs_with_priority
                /\ IF Len(configs_with_priority) = 0
                   THEN pc' = "nothing" /\ merged_config' = merged_config
                   ELSE pc' = "merged"
                        /\ merged_config' = SortAndMerge(configs_with_priority)
    /\ UNCHANGED <<in_key, parsed_attrs, gbvars, elvars, rankvars, server, extravars>>

MergeNext == MergeUsage \/ MergeMain

SpecMerge == MergeInit /\ [][MergeNext]_vars

Permuted(list, p) == [i \in 1..Len(list) |-> list[p[i]]]

Perms(n) == {p \in [1..n -> 1..n] : \A i, j \in 1..n : i # j => p[i] # p[j]}

\* C7 as stated: every permutation of the fetched fragments sorts and merges
\* to the same flat map.
C7_Original ==
    (pc = "merged") =>
        \A p \in Perms(Len(fragments)) :
            SortAndMerge(Permuted(fragments, p)) = merged_config

\* two fragments of equal priority score give different values to one key
TieConflict(list) ==
    \E i, j \in 1..Len(list) :
        /\ list[i].priority = list[j].priority
        /\ \E key \in DOMAIN list[i].config \cap DOMAIN list[j].config :
               list[i].config[key] # list[j].config[key]

\* the fragments that define key
Defining(list, key) == {i \in 1..Len(list) : key \in DOMAIN list[i].config}

\* of the fragments defining key, the last fetched among those of the
\* highest priority score
Winner(list, key) ==
    CHOOSE i \in Defining(list, key) :
        \A j \in Defining(list, key) :
            \/ list[j].priority < list[i].priority
            \/ list[j].priority = list[i].priority /\ j <= i

\* C7 (amended): when no two fetched fragments of equal priority score give
\* different values to one key, every permutation of the fragments sorts and
\* merges to the same flat map; in every case a key takes its value from the
\* fragment of highest score defining it, the last fetched of them when
\* several share that score.
C7_OrderIndependentWithoutTies ==
    (pc = "merged") =>
        /\ ~TieConflict(fragments) =>
               \A p \in Perms(Len(fragments)) :
                   SortAndMerge(Permuted(fragments, p)) = merged_config
        /\ \A key \in DOMAIN merged_config :
               merged_config[key] = fragments[Winner(fragments, key)].config[key]

\* fragments fetched highest priority first that disagree on a key
C7_Witness ==
    /\ pc = "merged"
    /\ ~TieConflict(fragments)
    /\ \E i, j \in 1..Len(fragments) :
          /\ i < j
          /\ fragments[i].priority > fragments[j].priority
          /\ \E key \in DOMAIN fragments[i].config \cap DOMAIN fragments[j].config :
                 fragments[i].config[key] # fragments[j].config[key]

\* C8: the merged key set is the union of the fragments' key sets; every key
\* has the value of a fragment that defines it and that no fragment defining
\* the key outranks; a fragment that outranks every other fragment defining
\* the key gives the key its value.
C8_HighestPriorityWins ==
    (pc = "merged") =>
        /\ DOMAIN merged_config = UNION {DOMAIN fragments[i].config : i \in 1..Len(fragments)}
        /\ \A key \in DOMAIN merged_config :
               \E i \in Defining(fragments, key) :
                   /\ merged_config[key] = fragments[i].config[key]
                   /\ \A j \in Defining(fragments, key) :
                          fragments[j].priority <= fragments[i].priority
        /\ \A key \in DOMAIN merged_config :
               \A i \in Defining(fragments, key) :
                   (\A j \in Defining(fragments, key) \ {i} :
                        fragments[j].priority < fragments[i].priority)
                       => merged_config[key] = fragments[i].config[key]

\* the highest fragment overrides one key of a lower fragment, and another
\* key falls back to the lower fragment
C8_Witness ==
    /\ pc = "merged"
    /\ \E i, j \in 1..Len(fragments) :
          /\ fragments[j].priority < fragments[i].priority
          /\ \A k \in 1..Len(fragments) : fragments[k].priority <= fragments[i].priority
          /\ \E key \in DOMAIN fragments[i].config \cap DOMAIN fragments[j].config :
                 /\ fragments[i].config[key] # fragments[j].config[key]
                 /\ merged_config[key] = fragments[i].config[key]
          /\ \E key \in DOMAIN fragments[j].config \ DOMAIN fragments[i].config :
                 merged_config[key] = fragments[j].config[key]

(***************************************************************************)
(* Spec: process_config_element handles one configuration element with a   *)
(* fresh client, against a server that may already hold a saved group, an  *)
(* attribute and the feature.  Every remote call may fail.                 *)
(***************************************************************************)
MaxBlock == 3

CLIENT_ID_42 == <<"client_id", EQ, "42">>

COUNTRY_CN == <<"country", EQ, "cn">>

ElementKeys == {DEFAULT, CLIENT_ID_42, COUNTRY_CN, <<"beta">>}

\* the value a child key carries in configuration.yaml
ElementValues(child_key) ==
    IF child_key = DEFAULT
    THEN {ListVal(<<StrVal("V0")>>), ListVal(<<StrVal("V0"), StrVal("V0b")>>)}
    ELSE IF child_key = CLIENT_ID_42 THEN {ListVal(<<StrVal("V1")>>)}
    ELSE IF child_key = COUNTRY_CN THEN {ListVal(<<StrVal("V2")>>)}
    ELSE {ListVal(<<StrVal("V3")>>)}

\* every ordered dict of n of the keys
RECURSIVE BlocksOfLen(_)
BlocksOfLen(n) ==
    IF n = 0 THEN {<<>>}
    ELSE UNION {UNION {{Append(b, Item(k, v)) : v \in ElementValues(k)} :
                          k \in ElementKeys \ {b[i].key : i \in 1..Len(b)}} :
                   b \in BlocksOfLen(n - 1)}

ElementBlocks == UNION {BlocksOfLen(n) : n \in 0..MaxBlock}

TEST_FEATURE == <<"TEST">>

OldFeature == [defaultValue |-> Serialize("string", StrVal("old")), rules |-> <<>>,
               valueType |-> "string", id |-> TEST_FEATURE]

Init ==
    /\ pc = "start"
    /\ in_key = <<>>
    /\ parsed_attrs = EmptyDict
    /\ saved_groups_cache = EmptyDict
    /\ cache_loaded = FALSE
    /\ remote_groups \in {<<>>, <<[name |-> CLIENT_ID_42, condition |-> StaleCondition]>>}
    /\ except_file = <<>>
    /\ NoResults
    /\ block_in = <<>>
    /\ config_in = <<>>
    /\ attributes_cache = EmptyDict
    /\ attrs_loaded = FALSE
    /\ remote_attrs \in {EmptyDict, [a \in {<<"country">>} |-> "string"]}
    /\ remote_features \in {EmptyDict, [f \in {TEST_FEATURE} |-> OldFeature]}
    /\ payload = NoPayload
    /\ feature = FALSE
    /\ RankIdle
    /\ ExtrasIdle
    /\ MergeIdle

\* process_config_element(config_key, config_value, gb) with a dict
ProcessConfigElement ==
    /\ pc = "start"
    /\ \E config_value \in ElementBlocks,
          groupListOk \in BOOLEAN, groupCreateOk \in BOOLEAN,
          attrListOk \in BOOLEAN, attrCreateOk \in BOOLEAN,
          getOk \in BOOLEAN, writeOk \in BOOLEAN :
          \E e \in {process_config_element(
                       TEST_FEATURE, config_value, Client, except_file,
                       [cache |-> attributes_cache, loaded |-> attrs_loaded,
                        remote |-> remote_attrs],
                       remote_features,
                       IF groupListOk THEN {} ELSE ElementKeys,
                       IF groupCreateOk THEN {} ELSE ElementKeys,
                       attrListOk, attrCreateOk, getOk, writeOk)} :
             /\ config_in' = config_value
             /\ block_in' = e.block
             /\ Returned(e.r)
             /\ attributes_cache' = e.attrs.cache
             /\ attrs_loaded' = e.attrs.loaded
             /\ remote_attrs' = e.attrs.remote
             /\ remote_features' = e.f.remote
             /\ payload' = e.f.payload
             /\ feature' = e.f.feature
    /\ pc' = "done"
    /\ UNCHANGED <<in_key, parsed_attrs, rankvars, mergevars, extravars>>

\* process_config_element with a value that is not a dict: nothing is done
SkipConfigElement ==
    /\ pc = "start"
    /\ pc' = "skipped"
    /\ UNCHANGED <<in_key, parsed_attrs, gbvars, elvars, rankvars, mergevars, extravars>>

Next == ProcessConfigElement \/ SkipConfigElement

Spec == Init /\ [][Next]_vars

KeysOf(block) == [i \in 1..Len(block) |-> block[i].key]

DescriptionsOf(rule_list) == [i \in 1..Len(rule_list) |-> rule_list[i].description]

\* C10 as stated: the rules in the payload sent by create_feature are in the
\* order of the rules returned by process_config_to_rules, which is the
\* order of the reordered block.
C10_PayloadInReorderedOrder ==
    (pc = "done") =>
        DescriptionsOf(payload.rules) = DescriptionsOf(rules)

\* the variation ids a user may present, in any order
UserIds ==
    LET ids == ElementKeys \ {DEFAULT}
    IN {<<>>} \cup {<<a>> : a \in ids}
              \cup {<<a, b>> : a \in ids, b \in ids}

\* the user's attributes satisfy the condition of the rule's saved group
RuleMatches(rule, attributes) ==
    /\ rule.savedGroups # NoGroup
    /\ LET condition == remote_groups[rule.savedGroups].condition
       IN \A a \in DOMAIN condition :
             a \in DOMAIN attributes /\ attributes[a] = condition[a]

\* the value of the first rule that matches, the default value otherwise
RECURSIVE FirstMatch(_, _, _)
FirstMatch(rule_list, attributes, otherwise) ==
    IF rule_list = <<>> THEN otherwise
    ELSE IF Head(rule_list).enabled /\ RuleMatches(Head(rule_list), attributes)
    THEN Head(rule_list).value.of
    ELSE FirstMatch(Tail(rule_list), attributes, otherwise)

\* the values of the keys of the block that the user presents and that no
\* other such key outscores; the default value if the user presents none
BestByScore(block, ids, otherwise) ==
    LET presented == {i \in 1..Len(block) :
                         block[i].key # DEFAULT /\ InList(ids, block[i].key)}
    IN IF presented = {} THEN {otherwise}
       ELSE {_extract_value(block[i].value) :
                i \in {j \in presented :
                          \A k \in presented :
                             get_priority_score(block[k].key)
                                <= get_priority_score(block[j].key)}}

\* C25 as stated: for every user, the first rule of the payload that matches
\* carries the value of the presented key of greatest priority score, and
\* the default value is returned when no key is presented.
C25_FirstMatchAgreesWithMerge ==
    (pc = "done") =>
        \A ids \in UserIds :
            FirstMatch(payload.rules, parse_variation_ids_to_attributes(ids),
                       payload.defaultValue.of)
                \in BestByScore(config_in, ids, payload.defaultValue.of)

(***************************************************************************)
(* Unleash builder (migrate_to_unleash.py).  In its strings every "_",     *)
(* "." and "-" is a token of its own.  A migrator is the record            *)
(* [fields, context, segments, remote, strategies, segment_calls].         *)
(***************************************************************************)
UND == "_"

DOT == "."

SEGMENT_ENABLED_CONTEXTS ==
    { <<"os">>, <<"os", UND, "version">>, <<"country">>, <<"country", HYP, "group">>,
      <<"language">>, <<"currency">>, <<"flavor">>, <<"browser">>,
      <<"pusher", HYP, "app">>, <<"forced", HYP, "update">>,
      <<"suggested", HYP, "update">>, <<"cohort">>, <<"ab">>,
      <<"utm", UND, "source">>, <<"utm", UND, "medium">>, <<"utm", UND, "campaign">>,
      <<"utm", UND, "term">>, <<"utm", UND, "content">> }

\* Python's None for a segment id
NoSegment == 0

Migrator ==
    [fields |-> existing_context_fields, context |-> remote_context,
     segments |-> existing_segments, remote |-> remote_segments,
     strategies |-> strategies, segment_calls |-> segment_calls]

\* returns [m, ok]
update_context_field(m, field_name, legal_values, getOk, putOk) ==
    IF getOk /\ field_name \in DOMAIN m.context
    THEN LET existing_legal_values == m.context[field_name]
             merged_values == existing_legal_values \cup legal_values
         IN IF Cardinality(merged_values) > Cardinality(existing_legal_values)
            THEN IF putOk
                 THEN [m |-> [m EXCEPT !.context = DictSet(m.context, field_name, merged_values)],
                       ok |-> TRUE]
                 ELSE [m |-> m, ok |-> FALSE]
            ELSE [m |-> m, ok |-> TRUE]
    ELSE [m |-> m, ok |-> FALSE]

\* returns [m, ok].  post is the answer to the POST: "ok" (200/201, or 409
\* when the server holds the field), "bad" (400) or "fail" (anything else).
create_context_field(m, field_name, legal_values, post, getOk, putOk) ==
    LET known == [m EXCEPT !.fields = @ \cup {field_name}]
    IN IF field_name \in m.fields
       THEN IF legal_values # {}
            THEN update_context_field(m, field_name, legal_values, getOk, putOk)
            ELSE [m |-> m, ok |-> TRUE]
       ELSE IF post = "ok" /\ field_name \notin DOMAIN m.context
       THEN [m |-> [known EXCEPT !.context = DictSet(m.context, field_name, legal_values)],
             ok |-> TRUE]
       ELSE IF post = "ok"
       THEN IF legal_values # {}
            THEN update_context_field(known, field_name, legal_values, getOk, putOk)
            ELSE [m |-> known, ok |-> TRUE]
       ELSE IF post = "bad" /\ legal_values # {}
       THEN update_context_field(known, field_name, legal_values, getOk, putOk)
       ELSE [m |-> m, ok |-> FALSE]

SegmentCall(name, constraints, id, hit) ==
    [name |-> name, constraints |-> constraints, id |-> id, hit |-> hit]

\* mutant: a cached segment is posted again
CreateSegmentAlwaysPosts(m, segment_name, constraints, ok) ==
    IF ok
    THEN LET segment_id == Len(m.remote) + 1
         IN [m |-> [m EXCEPT !.remote = Append(@, [name |-> segment_name,
                                                    constraints |-> constraints]),
                             !.segments = DictSet(m.segments, segment_name, segment_id),
                             !.segment_calls = Append(@, SegmentCall(segment_name, constraints,
                                                                     segment_id, FALSE))],
             id |-> segment_id]
    ELSE [m |-> [m EXCEPT !.segment_calls = Append(@, SegmentCall(segment_name, constraints,
                                                                  NoSegment, FALSE))],
          id |-> NoSegment]

\* returns [m, id]
create_segment(m, segment_name, constraints, ok) ==
    IF segment_name \in DOMAIN m.segments
    THEN [m |-> [m EXCEPT !.segment_calls = Append(@, SegmentCall(segment_name, constraints,
                                                                  m.segments[segment_name], TRUE))],
          id |-> m.segments[segment_name]]
    ELSE IF ok
    THEN LET segment_id == Len(m.remote) + 1
         IN [m |-> [m EXCEPT !.remote = Append(@, [name |-> segment_name,
                                                    constraints |-> constraints]),
                             !.segments = DictSet(m.segments, segment_name, segment_id),
                             !.segment_calls = Append(@, SegmentCall(segment_name, constraints,
                                                                     segment_id, FALSE))],
             id |-> segment_id]
    ELSE [m |-> [m EXCEPT !.segment_calls = Append(@, SegmentCall(segment_name, constraints,
                                                                  NoSegment, FALSE))],
          id |-> NoSegment]

\* json.dumps(variant_value) if it is a list, else str(variant_value)
VariantPayload(variant_value) ==
    [enc |-> IF variant_value.t = "list" THEN "json" ELSE "str", of |-> variant_value]

\* the migrator after the POST of the strategy; accepted is the answer
add_variant_with_condition(m, feature_name, variant_name, variant_value, segment_ids, constraints, ok) ==
    [m EXCEPT !.strategies =
        Append(@, [feature |-> feature_name, variant |-> variant_name,
                   payload |-> VariantPayload(variant_value),
                   segments |-> segment_ids, constraints |-> constraints,
                   accepted |-> ok])]

Constraint(key, operator_value) ==
    [contextName |-> key, operator |-> "IN", values |-> <<operator_value>>]

SegmentName(key, operator_value) ==
    Replace(Replace(<<"segment", UND>> \o key \o <<UND>> \o operator_value, DOT, UND), HYP, UND)

\* mutant: the inline constraint is sent along with the segment
OperatorValueSendsBoth(m, feature_name, key, operator_value, config_value, use_segments, segOk, postOk) ==
    LET constraint == Constraint(key, operator_value)
        variant_name == key \o <<UND>> \o operator_value
        s == create_segment(m, SegmentName(key, operator_value), <<constraint>>, segOk)
    IN add_variant_with_condition(s.m, feature_name, variant_name, config_value,
                                  <<s.id>>, <<constraint>>, postOk)

\* one iteration of the loop of process_operator_key
ProcessOperatorValue(m, feature_name, key, operator_value, config_value, use_segments, segOk, postOk) ==
    LET constraint == Constraint(key, operator_value)
        variant_name == key \o <<UND>> \o operator_value
    IN IF use_segments
       THEN LET s == create_segment(m, SegmentName(key, operator_value), <<constraint>>, segOk)
            IN IF s.id # NoSegment
               THEN add_variant_with_condition(s.m, feature_name, variant_name, config_value,
                                               <<s.id>>, <<>>, postOk)
               ELSE add_variant_with_condition(s.m, feature_name, variant_name, config_value,
                                               <<>>, <<constraint>>, postOk)
       ELSE add_variant_with_condition(m, feature_name, variant_name, config_value,
                                       <<>>, <<constraint>>, postOk)

RECURSIVE OperatorValuesFrom(_, _, _, _, _, _, _, _)
OperatorValuesFrom(m, feature_name, key, values_dict, i, use_segments, segFail, postOk) ==
    IF i > Len(values_dict) THEN m
    ELSE OperatorValuesFrom(
             ProcessOperatorValue(m, feature_name, key, values_dict[i].key, values_dict[i].value,
                                  use_segments, values_dict[i].key \notin segFail, postOk),
             feature_name, key, values_dict, i + 1, use_segments, segFail, postOk)

\* values_dict is the ordered dict operator value -> config value; segFail
\* holds the operator values whose segment the server refuses
process_operator_key(m, feature_name, key, values_dict, ctxPost, ctxGetOk, ctxPutOk, segFail, postOk) ==
    LET use_segments == key \in SEGMENT_ENABLED_CONTEXTS
        legal_values == IF use_segments
                        THEN {values_dict[i].key : i \in 1..Len(values_dict)}
                        ELSE {}
        c == create_context_field(m, key, legal_values, ctxPost, ctxGetOk, ctxPutOk)
    IN OperatorValuesFrom(c.m, feature_name, key, values_dict, 1, use_segments, segFail, postOk)

\* the migrator's state after the step
Migrated(m) ==
    /\ existing_context_fields' = m.fields
    /\ remote_context' = m.context
    /\ existing_segments' = m.segments
    /\ remote_segments' = m.remote
    /\ strategies' = m.strategies
    /\ segment_calls' = m.segment_calls

(***************************************************************************)
(* SpecClient: a fresh client serves up to MaxCalls calls, each a direct   *)
(* ensure_saved_group call or a process_config_to_rules call that logs to  *)
(* the same except.json.  The server may already hold a saved group, and   *)
(* except.json may be absent, hold a record of an earlier run, or be       *)
(* unparseable.                                                            *)
(***************************************************************************)
MaxCalls == 2

COUNTRY_VN == <<"country", EQ, "vn">>

BETA == <<"beta">>

HYPHEN_KEY == <<"a", EQ, "b", HYP, "c", EQ, "d">>

GroupNames == {COUNTRY_VN, BETA}

CountryIs(v) == [a \in {<<"country">>} |-> <<v>>]

GroupConditions == {CountryIs("vn"), CountryIs("us")}

ClientValue == ListVal(<<StrVal("v")>>)

ClientBlocks ==
    { <<Item(DEFAULT, ClientValue), Item(BETA, ClientValue)>>,
      <<Item(DEFAULT, ClientValue), Item(COUNTRY_VN, ClientValue)>>,
      <<Item(HYPHEN_KEY, ClientValue)>>,
      <<Item(BETA, ClientValue), Item(HYPHEN_KEY, ClientValue), Item(<<"x">>, ClientValue)>> }

OldRecord == Skipped(<<"OLD">>, HYPHEN_KEY, "unsupported_separator_hyphen", StrVal("v"))

ClientInit ==
    /\ pc = "start"
    /\ in_key = <<>>
    /\ parsed_attrs = EmptyDict
    /\ saved_groups_cache = EmptyDict
    /\ cache_loaded = FALSE
    /\ remote_groups \in {<<>>, <<[name |-> BETA, condition |-> StaleCondition]>>}
    /\ except_file \in {<<>>, GARBLED, <<OldRecord>>}
    /\ NoResults
    /\ block_in = <<>>
    /\ ElementIdle
    /\ RankIdle
    /\ MergeIdle
    /\ ClientIdle
    /\ UnleashIdle
    /\ LateIdle

\* the entry of history for one ensure_saved_group call
Call(e, n) == [name |-> e.name, condition |-> e.condition, id |-> e.id, hit |-> e.hit, call |-> n]

\* gb.ensure_saved_group(name, condition)
EnsureGroup ==
    /\ calls < MaxCalls
    /\ \E name \in GroupNames, condition \in GroupConditions,
          listOk \in BOOLEAN, createOk \in BOOLEAN :
          \E e \in {ensure_saved_group(Client, name, condition, listOk, createOk)} :
             /\ saved_groups_cache' = e.client.cache
             /\ cache_loaded' = e.client.loaded
             /\ remote_groups' = e.client.remote
             /\ history' = Append(history, Call([name |-> name, condition |-> condition,
                                                 id |-> e.id, hit |-> e.hit], calls + 1))
    /\ calls' = calls + 1
    /\ pc' = "ensured"
    /\ UNCHANGED <<in_key, parsed_attrs, except_file, default_value, rules, value_type,
                   attributes_needed, skipped_keys, ensured, block_in, elvars, rankvars,
                   mergevars, logged, ulvars, latevars>>

\* gb.process_config_to_rules(config_value, config_key)
ProcessBlock ==
    /\ calls < MaxCalls
    /\ \E block \in ClientBlocks, listOk \in BOOLEAN, createOk \in BOOLEAN :
          \E r \in {process_config_to_rules(
                        Client, except_file, block, <<"TEST_CACHE">>,
                        IF listOk THEN {} ELSE {block[i].key : i \in 1..Len(block)},
                        IF createOk THEN {} ELSE {block[i].key : i \in 1..Len(block)})} :
             /\ Returned(r)
             /\ block_in' = block
             /\ history' = history \o [i \in 1..Len(r.ensured) |-> Call(r.ensured[i], calls + 1)]
             /\ logged' = logged \o r.skipped_keys
    /\ calls' = calls + 1
    /\ pc' = "processed"
    /\ UNCHANGED <<in_key, parsed_attrs, elvars, rankvars, mergevars, ulvars, latevars>>

ClientNext == EnsureGroup \/ ProcessBlock

SpecClient == ClientInit /\ [][ClientNext]_vars

\* the request made a new group on the server
Created(e) == ~e.hit /\ e.id # NoGroup

C13_EnsureUpdates ==
    \A i \in 1..Len(history) :
        ((\A j \in (i + 1)..Len(history) : history[j].name # history[i].name)
            /\ history[i].id # NoGroup) =>
            remote_groups[history[i].id].condition = history[i].condition

IsPrefix(a, b) == Len(a) <= Len(b) /\ SubSeq(b, 1, Len(a)) = a

IsSuffix(a, b) == Len(a) <= Len(b) /\ SubSeq(b, Len(b) - Len(a) + 1, Len(b)) = a

\* C16: except.json ends with the records of all calls so far, in the order
\* they were logged, the last call's skipped keys last; no step removes a
\* record from a parseable except.json.
C16_LedgerAppendOnly ==
    /\ [](IsSuffix(logged, except_file) /\ IsSuffix(skipped_keys, logged))
    /\ [][except_file # GARBLED => IsPrefix(except_file, except_file')]_vars

\* two calls logged records after the record of an earlier run
C16_Witness ==
    /\ calls = 2
    /\ skipped_keys # <<>>
    /\ Len(logged) > Len(skipped_keys)
    /\ except_file = <<OldRecord>> \o logged

(***************************************************************************)
(* SpecCaches: the two name caches side by side.  A GrowthBook client and  *)
(* an Unleash migrator, each possibly started against a server that        *)
(* already holds an object, receive ensure_saved_group and create_segment  *)
(* calls in any order.                                                     *)
(***************************************************************************)
MaxSegmentCalls == 1

SEGMENT_COUNTRY_CN == <<"segment", UND, "country", UND, "cn">>

SEGMENT_OS_IOS == <<"segment", UND, "os", UND, "ios">>

SegmentNames == {SEGMENT_COUNTRY_CN, SEGMENT_OS_IOS}

SegmentConstraints == {<<Constraint(<<"country">>, <<"cn">>)>>, <<Constraint(<<"os">>, <<"ios">>)>>}

StaleSegment == [name |-> SEGMENT_COUNTRY_CN, constraints |-> <<Constraint(<<"country">>, <<"us">>)>>]

\* _load_existing_segments keeps the last id of a name
RECURSIVE SegmentsFrom(_, _)
SegmentsFrom(remote, i) ==
    IF i = 0 THEN EmptyDict
    ELSE DictSet(SegmentsFrom(remote, i - 1), remote[i].name, i)

\* the segments after __init__: _load_existing_segments may have failed
SegmentsInit ==
    /\ remote_segments \in {<<>>, <<StaleSegment>>}
    /\ existing_segments \in {EmptyDict, SegmentsFrom(remote_segments, Len(remote_segments))}
    /\ strategies = <<>>
    /\ segment_calls = <<>>
    /\ handled = <<>>

\* the context fields after __init__: _load_existing_context_fields may have failed
ContextInit ==
    /\ remote_context \in {EmptyDict, [f \in {<<"country">>} |-> {<<"us">>}]}
    /\ existing_context_fields \in {{}, DOMAIN remote_context}

CachesInit ==
    /\ pc = "start"
    /\ in_key = <<>>
    /\ parsed_attrs = EmptyDict
    /\ saved_groups_cache = EmptyDict
    /\ cache_loaded = FALSE
    /\ remote_groups \in {<<>>, <<[name |-> BETA, condition |-> StaleCondition]>>}
    /\ except_file = <<>>
    /\ NoResults
    /\ block_in = <<>>
    /\ ElementIdle
    /\ RankIdle
    /\ MergeIdle
    /\ ClientIdle
    /\ SegmentsInit
    /\ remote_context = EmptyDict
    /\ existing_context_fields = {}
    /\ LateIdle

\* migrator.create_segment(segment_name, description, constraints)
CreateSegment ==
    /\ Len(segment_calls) < MaxSegmentCalls
    /\ \E segment_name \in SegmentNames, constraints \in SegmentConstraints, ok \in BOOLEAN :
          \E s \in {create_segment(Migrator, segment_name, constraints, ok)} : Migrated(s.m)
    /\ pc' = "segment"
    /\ UNCHANGED <<in_key, parsed_attrs, gbvars, elvars, rankvars, mergevars, clvars, handled,
                   latevars>>

CachesNext == EnsureGroup \/ CreateSegment

SpecCaches == CachesInit /\ [][CachesNext]_vars

\* the step is one ensure_saved_group call for a name the cache holds
EnsureCached == Len(history') = Len(history) + 1 /\ history'[Len(history')].name \in DOMAIN saved_groups_cache

\* the step is one create_segment call for a name the cache holds
SegmentCached == Len(segment_calls') = Len(segment_calls) + 1 /\ segment_calls'[Len(segment_calls')].name \in DOMAIN existing_segments

MaxValues == 3

COUNTRY == <<"country">>

COUNTRY_GROUP == <<"country", HYP, "group">>

CLIENT_ID == <<"client", UND, "id">>

OperatorKeys == {COUNTRY, COUNTRY_GROUP, CLIENT_ID}

OperatorValues == {<<"cn">>, <<"1", DOT, "0">>, <<"1", HYP, "0">>}

\* the config value stored under an operator value
ConfigValueOf(operator_value) ==
    IF operator_value = <<"cn">> THEN ListVal(<<StrVal("v")>>) ELSE StrVal("v")

\* the ordered dicts of n distinct operator values
RECURSIVE ValueDictsOfLen(_)
ValueDictsOfLen(n) ==
    IF n = 0 THEN {<<>>}
    ELSE UNION { {Append(d, Item(v, ConfigValueOf(v))) :
                     v \in OperatorValues \ {d[i].key : i \in 1..Len(d)}} :
                 d \in ValueDictsOfLen(n - 1) }

ValueDicts == UNION {ValueDictsOfLen(n) : n \in 1..MaxValues}

UnleashInit ==
    /\ pc = "start"
    /\ in_key = <<>>
    /\ parsed_attrs = EmptyDict
    /\ saved_groups_cache = EmptyDict
    /\ cache_loaded = FALSE
    /\ remote_groups = <<>>
    /\ except_file = <<>>
    /\ NoResults
    /\ block_in = <<>>
    /\ ElementIdle
    /\ RankIdle
    /\ MergeIdle
    /\ ClientIdle
    /\ SegmentsInit
    /\ ContextInit
    /\ LateIdle

\* migrator.process_operator_key(feature_name, key, values_dict)
ProcessOperatorKey ==
    /\ pc = "start"
    /\ \E key \in OperatorKeys, values_dict \in ValueDicts, ctxPost \in {"ok", "bad", "fail"},
          ctxOk \in BOOLEAN, postOk \in BOOLEAN :
          /\ \E segFail \in SUBSET {values_dict[i].key : i \in 1..Len(values_dict)} :
                \E m \in {process_operator_key(Migrator, TEST_FEATURE, key, values_dict,
                                               ctxPost, ctxOk, ctxOk, segFail, postOk)} :
                   Migrated(m)
          /\ handled' = handled \o [i \in 1..Len(values_dict) |->
                                       [key |-> key, operator_value |-> values_dict[i].key,
                                        config_value |-> values_dict[i].value]]
    /\ pc' = "operator"
    /\ UNCHANGED <<in_key, parsed_attrs, gbvars, elvars, rankvars, mergevars, clvars, latevars>>

UnleashNext == ProcessOperatorKey

SpecUnleash == UnleashInit /\ [][UnleashNext]_vars

\* the number of create_segment calls made for the first i handled pairs
RECURSIVE SegmentCallsUpTo(_)
SegmentCallsUpTo(i) ==
    IF i = 0 THEN 0
    ELSE SegmentCallsUpTo(i - 1) + (IF handled[i].key \in SEGMENT_ENABLED_CONTEXTS THEN 1 ELSE 0)

\* the strategy carries only the segment id
BySegment(st, id) == st.segments = <<id>> /\ st.constraints = <<>>

\* the strategy carries only the inline constraint key IN [value]
Inline(st, h) == st.segments = <<>> /\ st.constraints = <<Constraint(h.key, h.operator_value)>>

\* C20: one strategy is posted per handled pair, in order; for an
\* allow-listed key whose create_segment call returned an id it references
\* that segment and carries no constraint; otherwise it carries the inline
\* constraint and no segment, and no segment call is made for a key outside
\* the allow-list.
C20_OneStrategyPerPair ==
    /\ Len(strategies) = Len(handled)
    /\ Len(segment_calls) = SegmentCallsUpTo(Len(handled))
    /\ \A i \in 1..Len(handled) :
          LET h == handled[i]
              st == strategies[i]
          IN /\ st.variant = h.key \o <<UND>> \o h.operator_value
             /\ IF h.key \in SEGMENT_ENABLED_CONTEXTS
                THEN LET c == segment_calls[SegmentCallsUpTo(i)]
                     IN /\ c.name = SegmentName(h.key, h.operator_value)
                        /\ IF c.id # NoSegment THEN BySegment(st, c.id) ELSE Inline(st, h)
                ELSE Inline(st, h)

\* one call handled a value by a cached segment, a value by a segment it
\* created and a value whose segment creation failed
C20_Witness ==
    /\ \E i \in 1..Len(handled) :
          /\ handled[i].key \in SEGMENT_ENABLED_CONTEXTS
          /\ segment_calls[SegmentCallsUpTo(i)].hit
          /\ strategies[i].segments # <<>>
    /\ \E i \in 1..Len(handled) :
          /\ handled[i].key \in SEGMENT_ENABLED_CONTEXTS
          /\ ~segment_calls[SegmentCallsUpTo(i)].hit
          /\ strategies[i].segments # <<>>
    /\ \E i \in 1..Len(handled) :
          /\ handled[i].key \in SEGMENT_ENABLED_CONTEXTS
          /\ segment_calls[SegmentCallsUpTo(i)].id = NoSegment
          /\ strategies[i].constraints # <<>>

\* C29 as stated: the segment a strategy references holds the constraint
\* of the strategy's own pair, for every handled pair, pairs whose segment
\* names coincide included.
C29_DistinctPairsDistinctSegments ==
    \A i \in 1..Len(handled) :
        strategies[i].segments # <<>> =>
            \A n \in 1..Len(strategies[i].segments) :
                remote_segments[strategies[i].segments[n]].constraints
                    = <<Constraint(handled[i].key, handled[i].operator_value)>>

(***************************************************************************)
(* SpecTypes: one block whose values are of every kind goes through        *)
(* process_config_to_rules, ensure_attribute and create_feature, as in     *)
(* test_create_feature_with_saved_groups (verify_process_config.py).       *)
(***************************************************************************)
MaxTypeKeys == 2

ONE_TWO_THREE == ListVal(<<NumVal("1"), NumVal("2"), NumVal("3")>>)

\* the kinds of value a `default` key carries
DefaultValues ==
    { StrVal("s"), BoolVal("True"), NumVal("7"), NoneVal,
      ListVal(<<>>), ListVal(<<StrVal("s")>>), ListVal(<<BoolVal("True")>>),
      ListVal(<<NumVal("7")>>), ListVal(<<ONE_TWO_THREE>>), ONE_TWO_THREE,
      DictVal(<<Item(<<"k">>, StrVal("s"))>>), ListVal(<<DictVal(<<>>)>>) }

\* the kinds of value another key carries
OtherValues == {ListVal(<<StrVal("s")>>), BoolVal("False"), ListVal(<<NumVal("1"), NumVal("2")>>)}

TypeKeys == {DEFAULT, BETA, COUNTRY_CN}

TypeValues(child_key) == IF child_key = DEFAULT THEN DefaultValues ELSE OtherValues

RECURSIVE TypeBlocksOfLen(_)
TypeBlocksOfLen(n) ==
    IF n = 0 THEN {<<>>}
    ELSE UNION {UNION {{Append(b, Item(k, v)) : v \in TypeValues(k)} :
                          k \in TypeKeys \ {b[i].key : i \in 1..Len(b)}} :
                   b \in TypeBlocksOfLen(n - 1)}

TypeBlocks == UNION {TypeBlocksOfLen(n) : n \in 0..MaxTypeKeys}

\* for attr in attributes_needed: gb.ensure_attribute(attr, datatype="string")
RECURSIVE EnsureStringAttributes(_, _, _, _)
EnsureStringAttributes(c, names, listOk, createOk) ==
    IF names = {} THEN c
    ELSE LET attr == CHOOSE n \in names : TRUE
         IN EnsureStringAttributes(ensure_attribute(c, attr, "string", listOk, createOk).client,
                                   names \ {attr}, listOk, createOk)

\* test_create_feature_with_saved_groups with the block config_value
CreateFeatureWithSavedGroups ==
    /\ pc = "start"
    /\ \E config_value \in TypeBlocks, groupsOk \in BOOLEAN, attrsOk \in BOOLEAN,
          getOk \in BOOLEAN, writeOk \in BOOLEAN :
          \E r \in {process_config_to_rules(Client, except_file, config_value, TEST_FEATURE,
                                            {}, IF groupsOk THEN {} ELSE TypeKeys)} :
             \E f \in {create_feature(remote_features, TEST_FEATURE, r.value_type,
                                      r.default_value, r.rules, getOk, writeOk)},
                a \in {EnsureStringAttributes([cache |-> attributes_cache, loaded |-> attrs_loaded,
                                               remote |-> remote_attrs],
                                              r.attributes_needed, attrsOk, attrsOk)} :
                /\ config_in' = config_value
                /\ block_in' = config_value
                /\ Returned(r)
                /\ attributes_cache' = a.cache
                /\ attrs_loaded' = a.loaded
                /\ remote_attrs' = a.remote
                /\ remote_features' = f.remote
                /\ payload' = f.payload
                /\ feature' = f.feature
    /\ pc' = "created"
    /\ UNCHANGED <<in_key, parsed_attrs, rankvars, mergevars, extravars>>

TypesNext == CreateFeatureWithSavedGroups

SpecTypes == Init /\ [][TypesNext]_vars

\* the value under `default` in the block, after the unwrapping of a
\* one-element or empty list; an absent `default` reads as no value
DefaultOf(block) ==
    IF \E i \in 1..Len(block) : block[i].key = DEFAULT
    THEN _extract_value(block[CHOOSE i \in 1..Len(block) : block[i].key = DEFAULT].value)
    ELSE NoneVal

\* C14: the value type is boolean for a boolean default, number for a
\* number, json for an array or object and string for anything else,
\* whatever the other keys hold and wherever `default` stands in the block.
C14_TypeFromDefaultOnly ==
    (pc = "created") =>
        LET d == DefaultOf(config_in)
        IN /\ d.t = "bool" => value_type = "boolean"
           /\ d.t = "num" => value_type = "number"
           /\ d.t \in {"list", "dict"} => value_type = "json"
           /\ d.t \notin {"bool", "num", "list", "dict"} => value_type = "string"

\* `default` stands last, after a key whose value is of another type
C14_Witness ==
    /\ pc = "created"
    /\ Len(config_in) = 2
    /\ config_in[2].key = DEFAULT
    /\ config_in[1].value = BoolVal("False")
    /\ DefaultOf(config_in) = ONE_TWO_THREE
    /\ value_type = "json"
    /\ Len(rules) = 1

\* the encoding create_feature must use for a value of the feature
EncodingOf(value_type_) == IF value_type_ = "json" THEN "json" ELSE "str"

\* C15: the default value and every rule value are sent JSON-encoded when
\* the inferred type is json and in their string form otherwise, each rule
\* value being the one process_config_to_rules returned; the block
\* {"default": [1,2,3]} has type json and sends the JSON encoding of [1,2,3].
C15_TypeGovernsSerialization ==
    (pc = "created") =>
        /\ payload.defaultValue = [enc |-> EncodingOf(value_type), of |-> default_value]
        /\ Len(payload.rules) = Len(rules)
        /\ \A i \in 1..Len(rules) :
              \E j \in 1..Len(payload.rules) :
                 /\ payload.rules[j].description = rules[i].description
                 /\ payload.rules[j].value = [enc |-> EncodingOf(value_type), of |-> rules[i].value]
        /\ (config_in = <<Item(DEFAULT, ONE_TWO_THREE)>> =>
               /\ value_type = "json"
               /\ payload.defaultValue = [enc |-> "json", of |-> ONE_TWO_THREE])

\* a json feature with a rule was sent
C15_Witness ==
    /\ pc = "created"
    /\ value_type = "json"
    /\ Len(payload.rules) = 1
    /\ payload.rules[1].value.enc = "json"
    /\ payload.defaultValue = [enc |-> "json", of |-> ONE_TWO_THREE]

(***************************************************************************)
(* Comparison tool (compare_configs.py).  The text of a string is the      *)
(* sequence of its tokens, a blank being a token of its own, and the JSON   *)
(* values of the two files carry their text in that form; a file is        *)
(* [state, data] with state "ok", "absent" or "invalid" (not JSON).        *)
(***************************************************************************)
SP == " "

JNull == [t |-> "none", s |-> <<>>, items |-> <<>>]

JStr(text) == [t |-> "str", s |-> text, items |-> <<>>]

JNum(text) == [t |-> "num", s |-> text, items |-> <<>>]

JList(items) == [t |-> "list", s |-> <<>>, items |-> items]

\* str(value) and repr(value) of Python
RECURSIVE PyStr(_)
RECURSIVE PyRepr(_)
PyStr(value) ==
    IF value.t = "str" THEN value.s
    ELSE IF value.t = "none" THEN <<"None">>
    ELSE IF value.t \in {"num", "bool"} THEN value.s
    ELSE IF value.t = "list"
    THEN <<"[">> \o Join([i \in 1..Len(value.items) |-> PyRepr(value.items[i]) \o <<",">>], SP) \o <<"]">>
    ELSE <<"{">> \o Join([i \in 1..Len(value.items) |->
                            value.items[i].key \o <<":">> \o PyRepr(value.items[i].value)], SP) \o <<"}">>

PyRepr(value) == IF value.t = "str" THEN <<"'">> \o value.s \o <<"'">> ELSE PyStr(value)

RECURSIVE LStrip(_)
LStrip(s) == IF s # <<>> /\ Head(s) = SP THEN LStrip(Tail(s)) ELSE s

\* str.strip()
Strip(s) == Reverse(LStrip(Reverse(LStrip(s))))

\* mutant: the elements of an array are joined without a separator
ParseValueJoinsTight(value) ==
    IF value.t = "none" THEN <<>>
    ELSE IF value.t = "str" THEN value.s
    ELSE IF value.t = "list"
    THEN IF Len(value.items) = 0 THEN <<>>
         ELSE Join([i \in 1..Len(value.items) |-> PyStr(value.items[i])], "")
    ELSE PyStr(value)

parse_value_to_string(value) ==
    IF value.t = "none" THEN <<>>
    ELSE IF value.t = "str" THEN value.s
    ELSE IF value.t = "list"
    THEN IF Len(value.items) = 0 THEN <<>>
         ELSE Join([i \in 1..Len(value.items) |-> PyStr(value.items[i])], SP)
    ELSE PyStr(value)

normalize_value(value) == Strip(parse_value_to_string(value))

\* the key names, in sorted order
KEY_NAMES == <<"k1", "k2", "k3", "k4">>

\* the loop over sorted(merged_config.keys()) from the i-th name on; acc is
\* [missing_keys, mismatched_values]
RECURSIVE CompareFrom(_, _, _, _)
CompareFrom(acc, growthbook_data, merged, i) ==
    IF i > Len(KEY_NAMES) THEN acc
    ELSE LET key == KEY_NAMES[i]
         IN IF key \notin DOMAIN merged
            THEN CompareFrom(acc, growthbook_data, merged, i + 1)
            ELSE IF key \notin DOMAIN growthbook_data
            THEN CompareFrom([acc EXCEPT !.missing_keys = Append(@, key)],
                             growthbook_data, merged, i + 1)
            ELSE IF normalize_value(merged[key]) # normalize_value(growthbook_data[key])
            THEN CompareFrom([acc EXCEPT !.mismatched_values = Append(@, key)],
                             growthbook_data, merged, i + 1)
            ELSE CompareFrom(acc, growthbook_data, merged, i + 1)

\* returns [missing_keys, mismatched_values, exit]
compare_configs(growthbook_file_, merged_config_file_) ==
    IF growthbook_file_.state # "ok" \/ merged_config_file_.state # "ok"
    THEN [missing_keys |-> <<>>, mismatched_values |-> <<>>, exit |-> 1]
    ELSE LET acc == CompareFrom([missing_keys |-> <<>>, mismatched_values |-> <<>>],
                                growthbook_file_.data, merged_config_file_.data, 1)
         IN [missing_keys |-> acc.missing_keys, mismatched_values |-> acc.mismatched_values,
             exit |-> IF acc.missing_keys # <<>> \/ acc.mismatched_values # <<>> THEN 1 ELSE 0]

(***************************************************************************)
(* SpecCompare: compare_configs.py run on two files.                       *)
(***************************************************************************)
MaxCompareKeys == 2

CompareKeys == {KEY_NAMES[i] : i \in 1..MaxCompareKeys}

CompareValues ==
    { JNull, JList(<<>>), JStr(<<"a", SP, "1">>),
      JList(<<JStr(<<"a">>), JNum(<<"1">>)>>), JStr(<<SP, "a">>), JList(<<JStr(<<"a">>)>>) }

\* the flat JSON objects over the keys
CompareDicts == UNION {[ks -> CompareValues] : ks \in SUBSET CompareKeys}

CompareFiles ==
    {[state |-> "ok", data |-> d] : d \in CompareDicts}
        \cup {NoFile, [state |-> "invalid", data |-> EmptyDict]}

CompareInit ==
    /\ pc = "start"
    /\ in_key = <<>>
    /\ parsed_attrs = EmptyDict
    /\ saved_groups_cache = EmptyDict
    /\ cache_loaded = FALSE
    /\ remote_groups = <<>>
    /\ except_file = <<>>
    /\ NoResults
    /\ block_in = <<>>
    /\ ElementIdle
    /\ RankIdle
    /\ MergeIdle
    /\ ClientIdle
    /\ UnleashIdle
    /\ growthbook_file \in CompareFiles
    /\ merged_config_file \in CompareFiles
    /\ missing_keys = <<>>
    /\ mismatched_values = <<>>
    /\ exit_status = NoExit
    /\ StartIdle
    /\ BatchIdle
    /\ CopyIdle

\* main() with the file names on the command line
CompareMain ==
    /\ pc = "start"
    /\ \E c \in {compare_configs(growthbook_file, merged_config_file)} :
          /\ missing_keys' = c.missing_keys
          /\ mismatched_values' = c.mismatched_values
          /\ exit_status' = c.exit
    /\ pc' = "compared"
    /\ UNCHANGED <<in_key, parsed_attrs, gbvars, elvars, rankvars, mergevars, clvars, ulvars,
                   growthbook_file, merged_config_file, startvars, batchvars, copyvars>>

\* main() without arguments prints the usage
CompareUsage ==
    /\ pc = "start"
    /\ exit_status' = 1
    /\ pc' = "usage"
    /\ UNCHANGED <<in_key, parsed_attrs, gbvars, elvars, rankvars, mergevars, clvars, ulvars,
                   cmpvars, startvars, batchvars, copyvars>>

CompareNext == CompareMain \/ CompareUsage

SpecCompare == CompareInit /\ [][CompareNext]_vars

RECURSIVE JoinedBySpaces(_)
\* the texts of the elements of an array, one blank between two of them
JoinedBySpaces(items) ==
    IF items = <<>> THEN <<>>
    ELSE IF Len(items) = 1 THEN PyStr(items[1])
    ELSE PyStr(items[1]) \o <<SP>> \o JoinedBySpaces(Tail(items))

\* the normalized string value of the claim
NormalForm(value) ==
    LET text == IF value.t = "none" THEN <<>>
                ELSE IF value.t = "list" THEN JoinedBySpaces(value.items)
                ELSE PyStr(value)
        first == CHOOSE i \in 1..(Len(text) + 1) :
                    /\ i = Len(text) + 1 \/ text[i] # SP
                    /\ \A j \in 1..(i - 1) : text[j] = SP
        last == CHOOSE i \in 0..Len(text) :
                    /\ i = 0 \/ text[i] # SP
                    /\ \A j \in (i + 1)..Len(text) : text[j] = SP
    IN SubSeq(text, first, last)

\* some key of the merged config is missing from the results or differs
SomeKeyFails ==
    \E key \in DOMAIN merged_config_file.data :
        \/ key \notin DOMAIN growthbook_file.data
        \/ NormalForm(merged_config_file.data[key]) # NormalForm(growthbook_file.data[key])

\* C17 as stated: the exit status is 1 exactly when some key of the merged
\* config is missing or differs, and 0 otherwise.
C17_Original ==
    (pc = "compared") =>
        /\ exit_status = 1 <=> SomeKeyFails
        /\ exit_status = 0 <=> ~SomeKeyFails

\* C17 (amended): when both files hold a JSON object the exit status is 1
\* exactly when some key of the merged config is missing or differs and 0
\* otherwise, whatever keys only the results hold; when a file is absent or
\* is not JSON the exit status is 1.
C17_ExitStatus ==
    (pc = "compared") =>
        IF growthbook_file.state = "ok" /\ merged_config_file.state = "ok"
        THEN /\ exit_status = 1 <=> SomeKeyFails
             /\ exit_status = 0 <=> ~SomeKeyFails
        ELSE exit_status = 1

\* the comparison passed although the results hold a key of their own and
\* a string matches an array only after stripping
C17_Witness ==
    /\ pc = "compared"
    /\ exit_status = 0
    /\ DOMAIN growthbook_file.data # DOMAIN merged_config_file.data
    /\ \E key \in DOMAIN merged_config_file.data :
          /\ merged_config_file.data[key].t = "str"
          /\ merged_config_file.data[key].s # NormalForm(merged_config_file.data[key])
          /\ growthbook_file.data[key].t = "list"

(***************************************************************************)
(* SpecStartup: the three scripts from their start to their exit.  `have`  *)
(* tells which environment variables are set and whether the configuration *)
(* file is "absent", "invalid" (does not parse) or "ok"; work is the       *)
(* number of requests the run issues once it has everything it needs.      *)
(* Each operator returns [exit, requests].                                 *)
(***************************************************************************)
MaxRequests == 2

Exited(exit, n) == [exit |-> exit, requests |-> n]

\* main.py, __main__: exit(1) without the key; GrowthBook.__init__ raises on
\* api_url=None; read_configuration raises on an absent file and returns
\* None on a YAML error
migrate_main(env, work) ==
    IF ~env.api_key THEN Exited(1, 0)
    ELSE IF ~env.api_url THEN Exited(1, 0)
    ELSE IF env.config = "absent" THEN Exited(1, 0)
    ELSE IF env.config = "invalid" THEN Exited(0, 0)
    ELSE Exited(0, work)

\* revert_growthbook_migration.py, main: returns on a missing key, project
\* or file; json.load raises on an invalid file; input() must be 'YES'
revert_main(env, confirmation, work) ==
    IF ~env.api_key THEN Exited(0, 0)
    ELSE IF ~env.project THEN Exited(0, 0)
    ELSE IF env.config = "absent" THEN Exited(0, 0)
    ELSE IF env.config = "invalid" THEN Exited(1, 0)
    ELSE IF ~confirmation THEN Exited(0, 0)
    ELSE Exited(0, work)

\* migrate_to_unleash.py, main: every setting has a default; the login is
\* posted first, the file is opened after it, the logout is always posted
unleash_main(env, loginOk, work) ==
    IF ~loginOk THEN Exited(0, 1)
    ELSE IF env.config # "ok" THEN Exited(1, 2)
    ELSE Exited(0, 2 + work)

Environments ==
    [api_key : BOOLEAN, project : BOOLEAN, api_url : BOOLEAN, config : {"absent", "invalid", "ok"}]

StartupInit ==
    /\ pc = "start"
    /\ in_key = <<>>
    /\ parsed_attrs = EmptyDict
    /\ saved_groups_cache = EmptyDict
    /\ cache_loaded = FALSE
    /\ remote_groups = <<>>
    /\ except_file = <<>>
    /\ NoResults
    /\ block_in = <<>>
    /\ ElementIdle
    /\ RankIdle
    /\ MergeIdle
    /\ ClientIdle
    /\ UnleashIdle
    /\ CompareIdle
    /\ exit_status = NoExit
    /\ script = ""
    /\ have \in Environments
    /\ requests = 0
    /\ BatchIdle
    /\ CopyIdle

Exits(name, e) ==
    /\ script' = name
    /\ exit_status' = e.exit
    /\ requests' = e.requests
    /\ pc' = "exited"
    /\ UNCHANGED <<in_key, parsed_attrs, gbvars, elvars, rankvars, mergevars, clvars, ulvars,
                   cmpvars, have, batchvars, copyvars>>

\* python main.py
MigrateMain == pc = "start" /\ \E work \in 1..MaxRequests : Exits("migrate", migrate_main(have, work))

\* python revert_growthbook_migration.py
RevertMain ==
    /\ pc = "start"
    /\ \E work \in 1..MaxRequests, confirmation \in BOOLEAN :
          Exits("revert", revert_main(have, confirmation, work))

\* python migrate_to_unleash.py
UnleashMain ==
    /\ pc = "start"
    /\ \E work \in 1..MaxRequests, loginOk \in BOOLEAN :
          Exits("unleash", unleash_main(have, loginOk, work))

StartupNext == MigrateMain \/ RevertMain \/ UnleashMain

SpecStartup == StartupInit /\ [][StartupNext]_vars

\* the script lacks a credential it requires or its configuration file
MissingInput ==
    \/ script = "migrate" /\ (~have.api_key \/ have.config = "absent")
    \/ script = "revert" /\ (~have.api_key \/ ~have.project \/ have.config = "absent")
    \/ script = "unleash" /\ have.config = "absent"

\* C18 as stated: a script that lacks a required credential or its
\* configuration file exits with a non-zero status and has issued no remote
\* request.
C18_MissingInputIsFatal ==
    (pc = "exited" /\ MissingInput) => (exit_status > 0 /\ requests = 0)

(***************************************************************************)
(* SpecBatch: process_all_config (main.py) over a configuration file of a  *)
(* few top-level keys, one step per key.  A value of the file is           *)
(* [dict, block]: whether it is a dict, and its items if it is.            *)
(***************************************************************************)
MaxConfigKeys == 2

FeatureNames == {TEST_FEATURE, <<"F2">>, <<"F3">>}

BatchValues ==
    { [dict |-> FALSE, block |-> <<>>],
      [dict |-> TRUE, block |-> <<Item(DEFAULT, ClientValue)>>],
      [dict |-> TRUE, block |-> <<Item(COUNTRY_CN, ClientValue), Item(DEFAULT, ClientValue)>>] }

\* the files of n top-level keys
RECURSIVE ConfigsOfLen(_)
ConfigsOfLen(n) ==
    IF n = 0 THEN {<<>>}
    ELSE UNION {UNION {{Append(c, Item(k, v)) : v \in BatchValues} :
                          k \in FeatureNames \ {c[i].key : i \in 1..Len(c)}} :
                   c \in ConfigsOfLen(n - 1)}

BatchConfigs == UNION {ConfigsOfLen(n) : n \in 0..MaxConfigKeys}

BatchInit ==
    /\ pc = "start"
    /\ in_key = <<>>
    /\ parsed_attrs = EmptyDict
    /\ saved_groups_cache = EmptyDict
    /\ cache_loaded = FALSE
    /\ remote_groups = <<>>
    /\ except_file = <<>>
    /\ NoResults
    /\ block_in = <<>>
    /\ config_in = <<>>
    /\ attributes_cache = EmptyDict
    /\ attrs_loaded = FALSE
    /\ remote_attrs = EmptyDict
    /\ remote_features \in {EmptyDict, [f \in {TEST_FEATURE} |-> OldFeature]}
    /\ payload = NoPayload
    /\ feature = FALSE
    /\ RankIdle
    /\ MergeIdle
    /\ ClientIdle
    /\ UnleashIdle
    /\ CompareIdle
    /\ exit_status = NoExit
    /\ StartIdle
    /\ config_items \in BatchConfigs
    /\ remaining = <<>>
    /\ processed_keys = 0
    /\ total_features = 0
    /\ processed = <<>>
    /\ CopyIdle

\* mutant: every key counts as a feature
CountEveryKey(total, feature_) == total + 1

\* if feature: total_features += 1
CountFeature(total, feature_) ==
    IF feature_ THEN total + 1 ELSE total

\* config = read_configuration(config_file_path); if not config: return None
ReadConfig ==
    /\ pc = "start"
    /\ remaining' = config_items
    /\ pc' = IF config_items = <<>> THEN "failed" ELSE "batch"
    /\ UNCHANGED <<in_key, parsed_attrs, gbvars, elvars, rankvars, mergevars, clvars, ulvars,
                   cmpvars, exit_status, startvars, copyvars, config_items, processed_keys, total_features,
                   processed>>

\* one iteration of the loop, for a value that is a dict
ProcessKeyOfBatch ==
    /\ pc = "batch"
    /\ remaining # <<>>
    /\ Head(remaining).value.dict
    /\ \E ensureOk \in BOOLEAN, getOk \in BOOLEAN, writeOk \in BOOLEAN :
          \E e \in {process_config_element(
                       Head(remaining).key, Head(remaining).value.block, Client, except_file,
                       [cache |-> attributes_cache, loaded |-> attrs_loaded,
                        remote |-> remote_attrs],
                       remote_features,
                       IF ensureOk THEN {} ELSE ElementKeys,
                       IF ensureOk THEN {} ELSE ElementKeys,
                       ensureOk, ensureOk, getOk, writeOk)} :
             /\ config_in' = Head(remaining).value.block
             /\ block_in' = e.block
             /\ Returned(e.r)
             /\ attributes_cache' = e.attrs.cache
             /\ attrs_loaded' = e.attrs.loaded
             /\ remote_attrs' = e.attrs.remote
             /\ remote_features' = e.f.remote
             /\ payload' = e.f.payload
             /\ feature' = e.f.feature
             /\ total_features' = CountFeature(total_features, e.f.feature)
             /\ processed' = Append(processed, [key |-> Head(remaining).key,
                                                feature |-> e.f.feature, created |-> TRUE])
    /\ processed_keys' = processed_keys + 1
    /\ remaining' = Tail(remaining)
    /\ pc' = "batch"
    /\ UNCHANGED <<in_key, parsed_attrs, rankvars, mergevars, clvars, ulvars, cmpvars,
                   exit_status, startvars, copyvars, config_items>>

\* one iteration of the loop, for a value that is not a dict
SkipKeyOfBatch ==
    /\ pc = "batch"
    /\ remaining # <<>>
    /\ ~Head(remaining).value.dict
    /\ total_features' = CountFeature(total_features, FALSE)
    /\ processed' = Append(processed, [key |-> Head(remaining).key,
                                       feature |-> FALSE, created |-> FALSE])
    /\ processed_keys' = processed_keys + 1
    /\ remaining' = Tail(remaining)
    /\ pc' = "batch"
    /\ UNCHANGED <<in_key, parsed_attrs, gbvars, elvars, rankvars, mergevars, clvars, ulvars,
                   cmpvars, exit_status, startvars, copyvars, config_items>>

\* summary = {"processed_keys": ..., "total_features": ...}
Summarize ==
    /\ pc = "batch"
    /\ remaining = <<>>
    /\ pc' = "summary"
    /\ UNCHANGED <<in_key, parsed_attrs, gbvars, elvars, rankvars, mergevars, extravars>>

BatchNext == ReadConfig \/ ProcessKeyOfBatch \/ SkipKeyOfBatch \/ Summarize

SpecBatch == BatchInit /\ [][BatchNext]_vars

\* the number of visited keys for which create_feature returned a feature
RECURSIVE FeaturesIn(_)
FeaturesIn(visited) ==
    IF visited = <<>> THEN 0
    ELSE FeaturesIn(Tail(visited)) + (IF Head(visited).created /\ Head(visited).feature THEN 1 ELSE 0)

\* C19: whatever remote calls fail, the keys visited so far are the first
\* keys of the file, each once and in file order; the counters count the
\* visited keys and those for which create_feature returned a feature; the
\* loop stops only after the last key, so the summary covers every key.
C19_BatchVisitsEveryKeyOnce ==
    /\ Len(processed) <= Len(config_items)
    /\ \A i \in 1..Len(processed) : processed[i].key = config_items[i].key
    /\ processed_keys = Len(processed)
    /\ total_features = FeaturesIn(processed)
    /\ pc = "batch" => Len(processed) + Len(remaining) = Len(config_items)
    /\ pc = "summary" => processed_keys = Len(config_items)

\* the summary of a file of two keys: the feature of one was returned, the
\* requests for the other failed
C19_Witness ==
    /\ pc = "summary"
    /\ processed_keys = 2
    /\ total_features = 1
    /\ processed[1].created /\ ~processed[1].feature
    /\ processed[2].feature

(***************************************************************************)
(* SpecRules: a fresh client, against a server that may already hold a     *)
(* group named beta, turns one block of up to MaxRuleKeys keys into rules. *)
(* The block draws its keys from the eight simple keys, default, a         *)
(* key=value, a hyphen-joined and an unrecognized key; the creation of the *)
(* saved group may fail for any of its keys.                               *)
(***************************************************************************)
MaxRuleKeys == 2

RuleKeys == SIMPLE_KEYS \cup {DEFAULT, COUNTRY_CN, HYPHEN_KEY, <<"x">>}

\* the values a key carries
RuleValues(child_key) ==
    IF child_key \in {BETA, <<"owner">>}
    THEN {ListVal(<<StrVal("v")>>), BoolVal("False")}
    ELSE {ListVal(<<StrVal("v")>>)}

RECURSIVE RuleBlocksOfLen(_)
RuleBlocksOfLen(n) ==
    IF n = 0 THEN {<<>>}
    ELSE UNION {UNION {{Append(b, Item(k, v)) : v \in RuleValues(k)} :
                          k \in RuleKeys \ {b[i].key : i \in 1..Len(b)}} :
                   b \in RuleBlocksOfLen(n - 1)}

RuleBlocks == UNION {RuleBlocksOfLen(n) : n \in 0..MaxRuleKeys}

RulesInit ==
    /\ pc = "start"
    /\ in_key = <<>>
    /\ parsed_attrs = EmptyDict
    /\ saved_groups_cache = EmptyDict
    /\ cache_loaded = FALSE
    /\ remote_groups \in {<<>>, <<[name |-> BETA, condition |-> StaleCondition]>>}
    /\ except_file = <<>>
    /\ NoResults
    /\ block_in = <<>>
    /\ ElementIdle
    /\ RankIdle
    /\ MergeIdle
    /\ ExtrasIdle

\* rules, default_value, value_type, attributes_needed =
\*     gb.process_config_to_rules(config_value, config_key)
ConfigToRules ==
    /\ pc = "start"
    /\ \E block \in RuleBlocks, listOk \in BOOLEAN :
          \E createFail \in SUBSET {block[i].key : i \in 1..Len(block)} :
             \E r \in {process_config_to_rules(
                          Client, except_file, block, TEST_FEATURE,
                          IF listOk THEN {} ELSE {block[i].key : i \in 1..Len(block)},
                          createFail)} :
                /\ Returned(r)
                /\ block_in' = block
    /\ pc' = "processed"
    /\ UNCHANGED <<in_key, parsed_attrs, elvars, rankvars, mergevars, extravars>>

RulesNext == ConfigToRules

SpecRules == RulesInit /\ [][RulesNext]_vars

\* the description process_config_to_rules gives the rule of a child key
DescriptionOf(child_key) ==
    IF child_key \in SIMPLE_KEYS THEN child_key \o <<" users">> ELSE child_key

\* the condition a simple key stands for
FlagCondition(child_key) == [a \in {<<"is_">> \o child_key} |-> <<"true">>]

\* C21 as stated: the rule of every simple key of the block references a
\* saved group that the server holds with the condition {is_<key>: "true"},
\* and is_<key> is among the attributes needed.
C21_SimpleKeyBoundToFlagGroup ==
    (pc = "processed") =>
        \A i \in 1..Len(block_in) :
            block_in[i].key \in SIMPLE_KEYS =>
                /\ <<"is_">> \o block_in[i].key \in attributes_needed
                /\ \E j \in 1..Len(rules) :
                      /\ rules[j].description = DescriptionOf(block_in[i].key)
                      /\ rules[j].value = _extract_value(block_in[i].value)
                      /\ rules[j].savedGroups # NoGroup
                      /\ remote_groups[rules[j].savedGroups].condition
                            = FlagCondition(block_in[i].key)

\* the keys of the block other than default, in the block's order
NonDefaultKeys(block) == SelectSeq(KeysOf(block), LAMBDA k : k # DEFAULT)

\* the child keys of the skipped-key records, in their order
SkippedChildKeys(records) == [i \in 1..Len(records) |-> records[i].child_key]

\* C27: every key of the block other than default gave either one rule or
\* one skipped-key record: the rules are those of the keys without a
\* record, in the order of the block, the records those of the other keys,
\* in the order of the block; together they are as many as the keys other
\* than default, and default gave neither.
C27_OneOutcomePerKey ==
    (pc = "processed") =>
        LET keys == NonDefaultKeys(block_in)
            recorded == {skipped_keys[i].child_key : i \in 1..Len(skipped_keys)}
            ruled == SelectSeq(keys, LAMBDA k : k \notin recorded)
        IN /\ Len(rules) + Len(skipped_keys) = Len(keys)
           /\ DescriptionsOf(rules) = [i \in 1..Len(ruled) |-> DescriptionOf(ruled[i])]
           /\ SkippedChildKeys(skipped_keys) = SelectSeq(keys, LAMBDA k : k \in recorded)
           /\ \A i \in 1..Len(rules) : rules[i].description # DescriptionOf(DEFAULT)
           /\ \A i \in 1..Len(skipped_keys) : skipped_keys[i].child_key # DEFAULT

\* a block of a skipped key and a key whose group could not be created
C27_Witness ==
    /\ pc = "processed"
    /\ KeysOf(block_in) = <<HYPHEN_KEY, BETA>>
    /\ Len(rules) = 1
    /\ rules[1].savedGroups = NoGroup
    /\ Len(skipped_keys) = 1

\* the identifiers held by the cache of saved groups
CachedIds == {saved_groups_cache[n] : n \in DOMAIN saved_groups_cache}

\* C28 as stated: every rule references a saved group that is not null and
\* is in saved_groups_cache, also when the creation of a group failed.
C28_NoRuleOnNullGroup ==
    (pc = "processed") =>
        \A i \in 1..Len(rules) :
            /\ rules[i].savedGroups # NoGroup
            /\ rules[i].savedGroups \in CachedIds

(***************************************************************************)
(* SpecReorder: reorder_config_value is applied to one value of a feature, *)
(* a dict of up to MaxReorderKeys condition keys, some of equal priority   *)
(* index, or a value that is not a dict.                                   *)
(***************************************************************************)
MaxReorderKeys == 3

COUNTRY_US == <<"country", EQ, "us">>

ReorderKeys == {DEFAULT, CLIENT_ID_42, COUNTRY_CN, COUNTRY_US, BETA, <<"foo", EQ, "1">>, <<"bar">>}

\* every ordered dict of n of the keys, each key with a value of its own
RECURSIVE ReorderBlocksOfLen(_)
ReorderBlocksOfLen(n) ==
    IF n = 0 THEN {<<>>}
    ELSE UNION {{Append(b, Item(k, ListVal(<<StrVal("v")>> \o k))) :
                    k \in ReorderKeys \ {b[i].key : i \in 1..Len(b)}} :
                   b \in ReorderBlocksOfLen(n - 1)}

ReorderInputs ==
    {DictVal(b) : b \in UNION {ReorderBlocksOfLen(n) : n \in 0..MaxReorderKeys}}
        \cup {StrVal("s"), NoneVal, ListVal(<<StrVal("a"), StrVal("b")>>)}

\* reorder_config_value with its test of the argument's type
ReorderConfigValue(config_value) ==
    IF config_value.t # "dict" THEN config_value
    ELSE DictVal(reorder_config_value(config_value.items))

ReorderInit ==
    /\ pc = "start"
    /\ in_key = <<>>
    /\ parsed_attrs = EmptyDict
    /\ saved_groups_cache = EmptyDict
    /\ cache_loaded = FALSE
    /\ remote_groups = <<>>
    /\ except_file = <<>>
    /\ NoResults
    /\ block_in = <<>>
    /\ config_in \in ReorderInputs
    /\ attributes_cache = EmptyDict
    /\ attrs_loaded = FALSE
    /\ remote_attrs = EmptyDict
    /\ remote_features = EmptyDict
    /\ payload = NoPayload
    /\ feature = FALSE
    /\ RankIdle
    /\ MergeIdle
    /\ ExtrasIdle

\* reordered = reorder_config_value(config_value)
Reorder ==
    /\ pc = "start"
    /\ block_in' = ReorderConfigValue(config_in)
    /\ pc' = "reordered"
    /\ UNCHANGED <<in_key, parsed_attrs, saved_groups_cache, cache_loaded, remote_groups,
                   except_file, default_value, rules, value_type, attributes_needed,
                   skipped_keys, ensured, config_in, attributes_cache, attrs_loaded,
                   remote_attrs, remote_features, payload, feature, rankvars, mergevars,
                   extravars>>

ReorderNext == Reorder

SpecReorder == ReorderInit /\ [][ReorderNext]_vars

\* the place of the key among the items
PlaceOf(items, key) == CHOOSE i \in 1..Len(items) : items[i].key = key

\* C24: the reordered dict holds the key/value pairs of the input, by
\* non-decreasing priority index, keys of equal index in their order in the
\* input; reordering it again leaves it as it is; a value that is not a dict
\* is returned unchanged.
C24_ReorderIsStableSort ==
    (pc = "reordered") =>
        IF config_in.t # "dict" THEN block_in = config_in
        ELSE LET given == config_in.items
                 out == block_in.items
             IN /\ block_in.t = "dict"
                /\ Len(out) = Len(given)
                /\ {out[i] : i \in 1..Len(out)} = {given[i] : i \in 1..Len(given)}
                /\ \A i, j \in 1..Len(out) :
                      i < j => get_priority_index(out[i].key) <= get_priority_index(out[j].key)
                /\ \A i, j \in 1..Len(given) :
                      (i < j /\ get_priority_index(given[i].key) = get_priority_index(given[j].key))
                          => PlaceOf(out, given[i].key) < PlaceOf(out, given[j].key)
                /\ ReorderConfigValue(block_in) = block_in

\* two keys of equal index came after a key of lower priority
C24_Witness ==
    /\ pc = "reordered"
    /\ config_in.t = "dict"
    /\ KeysOf(config_in.items) = <<DEFAULT, COUNTRY_US, COUNTRY_CN>>
    /\ KeysOf(block_in.items) = <<COUNTRY_US, COUNTRY_CN, DEFAULT>>

(***************************************************************************)
(* Rule copy between environments (copy_all_env_rules.py).  A feature is   *)
(* [found, environments]; environments maps the name of an environment to  *)
(* its configuration [enabled, has_rules, rules], has_rules telling whether *)
(* the configuration holds the key "rules" at all.                         *)
(***************************************************************************)
\* config.get("rules", [])
RulesOf(config) == IF config.has_rules THEN config.rules ELSE <<>>

\* mutant: the source's rules are added to those of the target
CopiedConfigAppends(target_config, source_rules) ==
    [target_config EXCEPT !.has_rules = TRUE,
                          !.rules = RulesOf(target_config) \o source_rules]

\* target_config["rules"] = source_rules.copy()
CopiedConfig(target_config, source_rules) ==
    [target_config EXCEPT !.has_rules = TRUE,
                          !.rules = source_rules]

\* returns [result, fetched, sent, server]: the value returned, what
\* get_feature returned, the payloads handed to update_feature and the
\* feature on the server afterwards.  getOk / postOk are the outcomes of the
\* two requests.
copy_environment_rules(on_server, source_env, target_env, getOk, postOk) ==
    LET feature_ == IF getOk THEN on_server ELSE NoFeature
        environments == feature_.environments
        stop(result) == [result |-> result, fetched |-> feature_, sent |-> <<>>,
                         server |-> on_server]
    IN IF ~feature_.found THEN stop("False")
       ELSE IF source_env \notin DOMAIN environments THEN stop("False")
       ELSE LET source_rules == RulesOf(environments[source_env])
                target_config == IF target_env \in DOMAIN environments
                                 THEN environments[target_env]
                                 ELSE [enabled |-> TRUE, has_rules |-> TRUE, rules |-> <<>>]
                target_rules == RulesOf(target_config)
            IN IF Len(source_rules) = 0 /\ Len(target_rules) = 0 THEN stop("None")
               ELSE LET payload_ == DictSet(environments, target_env,
                                            CopiedConfig(target_config, source_rules))
                    IN [result |-> IF postOk THEN "True" ELSE "False",
                        fetched |-> feature_,
                        sent |-> <<payload_>>,
                        server |-> IF postOk
                                   THEN [on_server EXCEPT !.environments = payload_]
                                   ELSE on_server]

(***************************************************************************)
(* SpecCopy: one copy_environment_rules call for a feature that the server *)
(* may not hold, or holds with any of three environments, each with or     *)
(* without rules.                                                          *)
(***************************************************************************)
MaxCopyRules == 2

EnvNames == {"production", "dev", "staging"}

RuleLists == UNION {[1..n -> {"r1", "r2"}] : n \in 0..MaxCopyRules}

EnvConfigs ==
    {[enabled |-> e, has_rules |-> TRUE, rules |-> r] : e \in BOOLEAN, r \in RuleLists}
        \cup {[enabled |-> FALSE, has_rules |-> FALSE, rules |-> <<>>]}

STAGING_CONFIG == [enabled |-> FALSE, has_rules |-> TRUE, rules |-> <<"r2">>]

\* the environments a feature may hold: staging, if there, is as above
EnvironmentSets ==
    UNION {[names -> EnvConfigs] : names \in SUBSET {"production", "dev"}}

WithStaging(environments) == DictSet(environments, "staging", STAGING_CONFIG)

Features ==
    {NoFeature}
        \cup {[found |-> TRUE, environments |-> e] : e \in EnvironmentSets}
        \cup {[found |-> TRUE, environments |-> WithStaging(e)] : e \in EnvironmentSets}

CopyInit ==
    /\ pc = "start"
    /\ in_key = <<>>
    /\ parsed_attrs = EmptyDict
    /\ saved_groups_cache = EmptyDict
    /\ cache_loaded = FALSE
    /\ remote_groups = <<>>
    /\ except_file = <<>>
    /\ NoResults
    /\ block_in = <<>>
    /\ ElementIdle
    /\ RankIdle
    /\ MergeIdle
    /\ ClientIdle
    /\ UnleashIdle
    /\ CompareIdle
    /\ exit_status = NoExit
    /\ StartIdle
    /\ BatchIdle
    /\ feature_on_server \in Features
    /\ copy_args = <<>>
    /\ fetched = NoFeature
    /\ update_sent = <<>>
    /\ copy_result = ""

\* result = copy_environment_rules(feature_id, source_env, target_env)
CopyEnvironmentRules ==
    /\ pc = "start"
    /\ \E source_env \in EnvNames, target_env \in EnvNames,
          getOk \in BOOLEAN, postOk \in BOOLEAN :
          \E c \in {copy_environment_rules(feature_on_server, source_env, target_env,
                                           getOk, postOk)} :
             /\ copy_args' = <<source_env, target_env>>
             /\ fetched' = c.fetched
             /\ update_sent' = c.sent
             /\ copy_result' = c.result
             /\ feature_on_server' = c.server
    /\ pc' = "copied"
    /\ UNCHANGED <<in_key, parsed_attrs, gbvars, elvars, rankvars, mergevars, clvars, ulvars,
                   cmpvars, exit_status, startvars, batchvars>>

CopyNext == CopyEnvironmentRules

SpecCopy == CopyInit /\ [][CopyNext]_vars

\* C30: after a copy that returned True one payload was sent, in which the
\* target environment holds the rules of the source as fetched, in their
\* order, and is otherwise as fetched, and every other environment is as
\* fetched; a feature whose source and target both have no rules gives None
\* and no update; a missing feature or source environment gives False and no
\* update.
C30_CopyTouchesOnlyTargetRules ==
    (pc = "copied") =>
        LET source_env == copy_args[1]
            target_env == copy_args[2]
            before == fetched.environments
            present == fetched.found /\ source_env \in DOMAIN before
            target_rules == IF target_env \in DOMAIN before THEN RulesOf(before[target_env])
                            ELSE <<>>
        IN /\ copy_result = "True" =>
                 /\ Len(update_sent) = 1
                 /\ present
                 /\ DOMAIN update_sent[1] = DOMAIN before \cup {target_env}
                 /\ update_sent[1][target_env].has_rules
                 /\ update_sent[1][target_env].rules = RulesOf(before[source_env])
                 /\ target_env \in DOMAIN before =>
                       update_sent[1][target_env].enabled = before[target_env].enabled
                 /\ \A e \in DOMAIN before \ {target_env} : update_sent[1][e] = before[e]
           /\ (present /\ RulesOf(before[source_env]) = <<>> /\ target_rules = <<>>) =>
                 copy_result = "None" /\ update_sent = <<>>
           /\ ~present => copy_result = "False" /\ update_sent = <<>>

\* production's two rules replaced the rule of a disabled dev, staging
\* being there too
C30_Witness ==
    /\ pc = "copied"
    /\ copy_result = "True"
    /\ copy_args = <<"production", "dev">>
    /\ DOMAIN fetched.environments = EnvNames
    /\ fetched.environments["dev"] = [enabled |-> FALSE, has_rules |-> TRUE, rules |-> <<"r2">>]
    /\ fetched.environments["production"].rules = <<"r1", "r2">>
    /\ update_sent[1]["dev"] = [enabled |-> FALSE, has_rules |-> TRUE, rules |-> <<"r1", "r2">>]

====
